---- MODULE Spec2Model ----
(***************************************************************************)
(* Reminder lifecycle of the Elderly Care Voice Assistant: the command     *)
(* router and the reminder commands with their time parser, the reminder   *)
(* store, the background NotificationScheduler, the pending_notifications  *)
(* queue of app.py and the notification poll of frontend/src/App.js.       *)
(*                                                                         *)
(* Time is in seconds from midnight of the current day.  The backend       *)
(* (app.py, Command_Processor.py, Storage_Manager.py, processors/*.py) is  *)
(* modelled from the project documentation, which describes each of its    *)
(* steps; the request path handles one request at a time and every         *)
(* Storage_Manager method is one atomic step, the scheduler thread         *)
(* interleaves with it between any two of its own steps.  Texts are        *)
(* strings, read by position.                                              *)
(***************************************************************************)
EXTENDS Integers, Sequences, FiniteSets, TLC

----------------------------------------------------------------------------
(* Bounds of the model *)

MaxTicks == 15          \* clock readings before the clock stops (75 s)
PeriodicMaxTicks == 25  \* the same, in the specification of punctual scans
QueueMaxTicks == 2      \* the same, in the specification of the queue
MaxIds == 2             \* reminders ever created
MaxQueued == 4          \* notifications ever queued, in the specification of dismiss
ScheduleMaxTicks == 15  \* the same, in the specification of commands beside scans
MaxOvertaken == 1       \* poll responses overtaken by a newer poll at one time
MaxTyped == 1           \* commands ever typed, in the specification of the client

(* Program constants *)

ScanPeriod == 10        \* Notification_Scheduler: sleep between scans, seconds
WindowPast == 60        \* a reminder up to 60 s past its time is still due
WindowFuture == 10      \* a reminder up to 10 s before its time is already due
SecondsPerMinute == 60  \* due times are "YYYY-MM-DD HH:MM"
RefreshEvery == 6       \* App.js: the reminders list is refreshed every 6th check

Ids == 1..MaxIds
TickStep == ScanPeriod \div 2

\* what a set command parses to: the reminder's text and its time, this minute
\* or the next
SetCommands ==
    { [text |-> "medicine", time |-> 0],
      [text |-> "water", time |-> SecondsPerMinute] }

----------------------------------------------------------------------------
VARIABLES
    now,            \* wall clock, seconds
    store,          \* scheduled_reminders: sequence of {id, text, time, completed}
    nextId,         \* next reminder id to assign
    schedPc,        \* scheduler thread: "sleep" | "check" | "mark"
    sleepLeft,      \* seconds of the scheduler's sleep still to run
    snapshot,       \* the list the running scan loaded
    scanIdx,        \* position of the running scan in snapshot
    scanNow,        \* the time the running scan compares against
    pending,        \* pending_notifications of app.py
    pollPc,         \* notification poll: "idle" | "copied" | "sent"
    pollResult,     \* the notifications the running poll answers with
    \* history variables, read by the properties only
    delivered,      \* id -> number of notify_callback calls
    failed,         \* ids whose notify_callback call failed
    received,       \* id -> number of times the client got its notification
    firedInScan,    \* ids the running scan called notify_callback for
    pushLog,        \* ids of the notifications appended to pending, in order
    missed,         \* ids a scan passed over as more than 60 s late
    addedLate,      \* ids saved later than one scan period before their time
    setForNow,      \* id -> how it was saved within its own minute, if it was
    overtaken,      \* responses still on their way when the next poll began
    dropped,        \* (history) ids in the responses of failed polls
    fresh,          \* a drain cleared the queue and nothing was pushed since
    regular,        \* reminders: the regular (legacy) reminders, texts
    today,          \* the current date
    lastCommand,    \* the command processed last
    handler,        \* the processor that handled it, "none" for no processor
    consulted,      \* (history) the processors whose match() was called for it
    response,       \* the kind of response it got
    emergencySent,  \* the command set off the emergency SMS
    parsed,         \* the result of the last time parsing, if any
    input,          \* (history) what the text under the parser was written from
    message,        \* "response" of the last JSON answer, its lines
    success,        \* "success" of the last JSON answer
    dismissed,      \* (history) the id of the last dismiss request
    messages,       \* App.js: the chat, a sequence of {type, content}
    utterances,     \* speechSynthesis: the utterance in progress, then those queued
    isSpeaking,     \* App.js: isSpeaking
    voiceStatus,    \* App.js: voiceStatus
    reminderRefreshCounter, \* notification checks since the last periodic refresh
    fetched,        \* (history) fetchReminders() calls of the last callback
    isListening,    \* App.js: isListening
    assistantStarted, \* App.js: assistantStarted
    recognition,    \* the browser's speech recognition: "off" | "on" | "heard"
    awaiting,       \* handleCommand calls waiting for the backend's answer
    heard,          \* (history) the texts spoken to their end
    reminders,      \* App.js: reminders, the list fetched last
    stalePolls,     \* (history) successful polls since lastCommand left it out of date
    refetchFailed   \* (history) a fetch of the list has failed since then

vars == <<now, store, nextId, schedPc, sleepLeft, snapshot, scanIdx, scanNow,
          pending, pollPc, pollResult, delivered, failed, received,
          firedInScan, pushLog, missed, addedLate, setForNow, overtaken, dropped, fresh,
          regular, today,
          lastCommand, handler, consulted, response, emergencySent, parsed,
          input, message, success, dismissed, messages, utterances,
          isSpeaking, voiceStatus, reminderRefreshCounter, fetched,
          isListening, assistantStarted, recognition, awaiting, heard,
          reminders, stalePolls, refetchFailed>>

----------------------------------------------------------------------------
(* Sequences *)

RECURSIVE SelectIds(_, _)
\* the entries of q whose id is not in S, in order
SelectIds(q, S) ==
    IF q = <<>> THEN <<>>
    ELSE IF Head(q).id \in S THEN SelectIds(Tail(q), S)
         ELSE <<Head(q)>> \o SelectIds(Tail(q), S)

\* mutant: the index is taken from 0, the entry after the n-th goes
RemoveAt_zero_based(s, n) ==
    [i \in 1..(Len(s) - 1) |-> IF i <= n THEN s[i] ELSE s[i + 1]]

RemoveAt(s, n) == [i \in 1..(Len(s) - 1) |-> IF i < n THEN s[i] ELSE s[i + 1]]

IdsOf(s) == {s[i].id : i \in 1..Len(s)}

CountOf(q, id) == Cardinality({i \in 1..Len(q) : q[i].id = id})

----------------------------------------------------------------------------
(* Storage_Manager *)

ScheduledReminder(id, text, time) ==
    [id |-> id, text |-> text, time |-> time, completed |-> FALSE]

\* mutant: the list is rewritten with every completed flag back at its default
save_resets_completed(s, id, text, time) ==
    Append([i \in 1..Len(s) |-> [s[i] EXCEPT !.completed = FALSE]],
           ScheduledReminder(id, text, time))

save_scheduled_reminder(s, id, text, time) ==
    Append(s, ScheduledReminder(id, text, time))

get_scheduled_reminders(s) == s

\* mutant: the flag is never written
mark_writes_nothing(s, id) == s

\* mutant: the delivered reminder is taken out of the list
mark_removes_record(s, id) == SelectIds(s, {id})

mark_reminder_completed(s, id) ==
    [i \in 1..Len(s) |->
        IF s[i].id = id THEN [s[i] EXCEPT !.completed = TRUE] ELSE s[i]]

----------------------------------------------------------------------------
(* Notification_Scheduler *)

\* mutant: the upper end of the window is excluded
IsDue_open_above(time, t) ==
    /\ time - t >= -WindowPast
    /\ time - t < WindowFuture

\* mutant: no lower end, any reminder of the past is due
IsDue_no_cutoff(time, t) == time - t <= WindowFuture

\* mutant: due only at the very second
IsDue_exact(time, t) == time = t

\* mutant: the lower end of the window is excluded
IsDue_open_below(time, t) ==
    /\ time - t > -WindowPast
    /\ time - t <= WindowFuture

\* mutant: a reminder up to two minutes past its time is still due
IsDue_long_past(time, t) ==
    /\ time - t >= -(2 * WindowPast)
    /\ time - t <= WindowFuture

\* the reminder's time has arrived: within -60 to +10 seconds of the scan
IsDue(time, t) ==
    /\ time - t >= -WindowPast
    /\ time - t <= WindowFuture

\* (history) a reminder saved at t for the minute that began at time: with a
\* scan period left before the window closes ("early"), with less ("last");
\* "past" when t is more than 60 s after it, "no" otherwise
InItsMinute(t, time) ==
    IF t > time + WindowPast THEN "past"
    ELSE IF t < time \/ t >= time + SecondsPerMinute THEN "no"
    ELSE IF t + ScanPeriod <= time + WindowPast THEN "early"
    ELSE "last"

\* notify_user of app.py: what the delivery callback appends
\* (the timestamp field, the wall clock at the call, is left out: nothing reads it)
Notification(text, id) ==
    [id |-> id, text |-> text, message |-> <<"Reminder: ", text>>]

notify_user(q, text, id) == Append(q, Notification(text, id))

----------------------------------------------------------------------------
(* Text *)

UpperLetters == "ABCDEFGHIJKLMNOPQRSTUVWXYZ"
LowerLetters == "abcdefghijklmnopqrstuvwxyz"
DigitChars == "0123456789"

\* s[a..b], empty when the range leaves the text
Sub(s, a, b) == IF a >= 1 /\ a <= b /\ b <= Len(s) THEN SubSeq(s, a, b) ELSE ""

CharAt(s, i) == Sub(s, i, i)

\* upper-case letter -> lower-case letter
LowerOf ==
    [c \in {CharAt(UpperLetters, k) : k \in 1..Len(UpperLetters)} |->
        CharAt(LowerLetters,
               CHOOSE k \in 1..Len(UpperLetters) : CharAt(UpperLetters, k) = c)]

lower_char(c) == IF c \in DOMAIN LowerOf THEN LowerOf[c] ELSE c

RECURSIVE lower_from(_, _)
lower_from(s, i) ==
    IF i > Len(s) THEN "" ELSE lower_char(CharAt(s, i)) \o lower_from(s, i + 1)

\* str.lower()
lower(s) == lower_from(s, 1)

\* k in s (substring containment); s is read once, as t
Contains(s, k) ==
    \E t \in {s} :
        \E i \in 1..(Len(t) - Len(k) + 1) : SubSeq(t, i, i + Len(k) - 1) = k

\* digit -> its value
ValueOf ==
    [c \in {CharAt(DigitChars, k) : k \in 1..Len(DigitChars)} |->
        (CHOOSE k \in 1..Len(DigitChars) : CharAt(DigitChars, k) = c) - 1]

IsDigit(c) == c \in DOMAIN ValueOf

DigitVal(c) == ValueOf[c]

\* int() of a run of one or two digits
NumVal(t) ==
    IF Len(t) = 1 THEN DigitVal(t)
    ELSE 10 * DigitVal(CharAt(t, 1)) + DigitVal(CharAt(t, 2))

\* str(n) of a number under 100: one or two digits
NumStr(n) ==
    IF n < 10 THEN CharAt(DigitChars, n + 1)
    ELSE CharAt(DigitChars, (n \div 10) + 1) \o CharAt(DigitChars, (n % 10) + 1)

\* two digits, "%02d"
Pad2(n) == IF n < 10 THEN "0" \o NumStr(n) ELSE NumStr(n)

AllDigits(t) == t # "" /\ \A i \in 1..Len(t) : IsDigit(CharAt(t, i))

RECURSIVE SkipSpaces(_, _)
\* \s*: the first position from j on that holds no space
SkipSpaces(s, j) == IF CharAt(s, j) = " " THEN SkipSpaces(s, j + 1) ELSE j

----------------------------------------------------------------------------
(* Calendar *)

MonthsPerYear == 12
HoursOnDial == 12       \* the 12-hour clock
HoursPerDay == 24
MinutesPerHour == 60

IsLeap(y) == (y % 4 = 0 /\ y % 100 # 0) \/ y % 400 = 0

DaysInMonth(y, m) ==
    IF m = 2 THEN (IF IsLeap(y) THEN 29 ELSE 28)
    ELSE IF m \in {4, 6, 9, 11} THEN 30 ELSE 31

Date(y, m, d) == [y |-> y, m |-> m, d |-> d]

\* mutant: the day of the month is raised, the month is left alone
next_day_same_month(date) == [date EXCEPT !.d = @ + 1]

\* date + timedelta(days=1)
next_day(date) ==
    IF date.d < DaysInMonth(date.y, date.m) THEN [date EXCEPT !.d = @ + 1]
    ELSE IF date.m < MonthsPerYear THEN Date(date.y, date.m + 1, 1)
    ELSE Date(date.y + 1, 1, 1)

----------------------------------------------------------------------------
(* Reminder_Processor: time parsing *)

NotFound == [found |-> FALSE]

TimeOfDay(hour, minute, from, to) ==
    [found |-> TRUE, hour |-> hour, minute |-> minute, from |-> from, to |-> to]

\* mutant: 12 is converted like every other hour
to_24_hour_no_twelve(h, meridiem) == IF meridiem = "pm" THEN h + HoursOnDial ELSE h

\* 12-hour to 24-hour: 12 am is 0, 12 pm is 12, 1..11 pm is +12
to_24_hour(h, meridiem) ==
    IF meridiem = "pm" /\ h # HoursOnDial THEN h + HoursOnDial
    ELSE IF meridiem = "am" /\ h = HoursOnDial THEN 0
    ELSE h

\* (\d{1,2}):(\d{2})\s*(am|pm) at position i with an hour of n digits
MatchColonMeridiem(s, i, n) ==
    LET j == SkipSpaces(s, i + n + 3) IN
    /\ AllDigits(Sub(s, i, i + n - 1))
    /\ CharAt(s, i + n) = ":"
    /\ AllDigits(Sub(s, i + n + 1, i + n + 2))
    /\ Sub(s, j, j + 1) \in {"am", "pm"}

\* (\d{1,2})\s*(am|pm)
MatchMeridiem(s, i, n) ==
    LET j == SkipSpaces(s, i + n) IN
    /\ AllDigits(Sub(s, i, i + n - 1))
    /\ Sub(s, j, j + 1) \in {"am", "pm"}

\* (\d{1,2}):(\d{2})
MatchColon(s, i, n) ==
    /\ AllDigits(Sub(s, i, i + n - 1))
    /\ CharAt(s, i + n) = ":"
    /\ AllDigits(Sub(s, i + n + 1, i + n + 2))

TimePatterns == <<"colon-meridiem", "meridiem", "colon">>

MatchAt(p, s, i, n) ==
    CASE p = "colon-meridiem" -> MatchColonMeridiem(s, i, n)
      [] p = "meridiem" -> MatchMeridiem(s, i, n)
      [] p = "colon" -> MatchColon(s, i, n)

RECURSIVE search_from(_, _, _)
\* the leftmost position from i on where p matches (0: nowhere)
search_from(p, s, i) ==
    IF i > Len(s) THEN 0
    ELSE IF MatchAt(p, s, i, 2) \/ MatchAt(p, s, i, 1) THEN i
    ELSE search_from(p, s, i + 1)

Found(p, s) == search_from(p, s, 1) > 0

\* the groups of the match of p at position i of s, the hour greedy
GroupsAt(p, s, i) ==
    LET n == IF MatchAt(p, s, i, 2) THEN 2 ELSE 1
        h == NumVal(Sub(s, i, i + n - 1))
        mm == IF p = "meridiem" THEN 0 ELSE NumVal(Sub(s, i + n + 1, i + n + 2))
        j == IF p = "meridiem" THEN SkipSpaces(s, i + n)
             ELSE SkipSpaces(s, i + n + 3)
    IN  IF p = "colon" THEN [h |-> h, mm |-> mm, meridiem |-> "", from |-> i,
                             to |-> i + n + 2]
        ELSE [h |-> h, mm |-> mm, meridiem |-> Sub(s, j, j + 1), from |-> i,
              to |-> j + 1]

\* re.search: the leftmost match
Search(p, s) ==
    CHOOSE m \in {GroupsAt(p, s, i) : i \in {search_from(p, s, 1)}} : TRUE

\* mutant: whatever digits match are taken for a time
valid_time_any(m, hour) == TRUE

\* the digits of the match m name a time of day: an hour of the dial before
\* am or pm, an hour of the day, a minute of the hour
valid_time(m, hour) ==
    /\ m.meridiem # "" => m.h >= 1 /\ m.h <= HoursOnDial
    /\ hour < HoursPerDay
    /\ m.mm < MinutesPerHour

\* the time of day of a match: the hour on the 24-hour clock
time_of_match(m) ==
    LET hour == IF m.meridiem = "" THEN m.h ELSE to_24_hour(m.h, m.meridiem)
    IN  IF valid_time(m, hour) THEN TimeOfDay(hour, m.mm, m.from, m.to)
        ELSE NotFound

RECURSIVE first_match(_, _)
\* the patterns are tried in order, the first that matches decides
first_match(s, k) ==
    IF k > Len(TimePatterns) THEN NotFound
    ELSE IF Found(TimePatterns[k], s)
         THEN CHOOSE t \in {time_of_match(m) : m \in {Search(TimePatterns[k], s)}} :
                  TRUE
         ELSE first_match(s, k + 1)

\* the time of day a command names, if any
parse_time_of_day(command) ==
    CHOOSE t \in {first_match(c, 1) : c \in {lower(command)}} : TRUE

has_tomorrow(command) == Contains(lower(command), "tomorrow")

\* mutant: a time of day that has passed is taken for the next day's
resolve_rolls_over(t, tomorrow, date) ==
    IF ~t.found THEN NotFound
    ELSE [found |-> TRUE,
          date |-> IF tomorrow
                      \/ (t.hour * MinutesPerHour + t.minute) * SecondsPerMinute < now
                   THEN next_day(date) ELSE date,
          hour |-> t.hour, minute |-> t.minute]

\* the due date and time: the time of day t on the day `date`, or on the day
\* after it
resolve(t, tomorrow, date) ==
    IF ~t.found THEN NotFound
    ELSE [found |-> TRUE,
          date |-> IF tomorrow THEN next_day(date) ELSE date,
          hour |-> t.hour, minute |-> t.minute]

\* the due date and time of a command, read on the day `date`
parse_time(command, date) ==
    resolve(parse_time_of_day(command), has_tomorrow(command), date)

RECURSIVE WordEnd(_, _)
\* the last position of the word that starts at i
WordEnd(s, i) == IF CharAt(s, i + 1) \in {" ", ""} THEN i ELSE WordEnd(s, i + 1)

RECURSIVE words_from(_, _)
words_from(s, i) ==
    IF i > Len(s) THEN <<>>
    ELSE IF CharAt(s, i) = " " THEN words_from(s, i + 1)
    ELSE <<Sub(s, i, WordEnd(s, i))>> \o words_from(s, WordEnd(s, i) + 1)

\* str.split(): the words of s
Words(s) == words_from(s, 1)

RECURSIVE Join(_)
\* " ".join(ws)
Join(ws) ==
    IF ws = <<>> THEN ""
    ELSE IF Len(ws) = 1 THEN ws[1]
    ELSE ws[1] \o " " \o Join(Tail(ws))

\* the command phrases taken out of the reminder's text
StopWords == {"set", "reminder", "for", "at", "tomorrow"}

\* c without the time phrase t
without_time(c, t) ==
    IF t.found THEN Sub(c, 1, t.from - 1) \o " " \o Sub(c, t.to + 1, Len(c))
    ELSE c

\* mutant: nothing left is an empty text
text_of_may_be_empty(ws) == Join(ws)

\* the words that are left, joined; nothing left is "this"
text_of(ws) == IF ws = <<>> THEN "this" ELSE Join(ws)

\* text extraction: the time phrase and the command phrases are removed
extract_text(command) ==
    CHOOSE x \in
        { text_of(ws) :
            ws \in { SelectSeq(Words(rest), LAMBDA w : w \notin StopWords) :
                        rest \in { without_time(c, t) :
                                     c \in {lower(command)},
                                     t \in {parse_time_of_day(command)} } } } :
        TRUE

RECURSIVE DaysBeforeMonth(_, _)
DaysBeforeMonth(y, m) ==
    IF m = 1 THEN 0 ELSE DaysBeforeMonth(y, m - 1) + DaysInMonth(y, m - 1)

\* 1 for January 1
DayOfYear(date) == DaysBeforeMonth(date.y, date.m) + date.d

DaysInYear(y) == DayOfYear(Date(y, MonthsPerYear, DaysInMonth(y, MonthsPerYear)))

\* days from `from` to `date`, a date of the same or the next year
DaysFrom(from, date) ==
    IF date.y = from.y THEN DayOfYear(date) - DayOfYear(from)
    ELSE DaysInYear(from.y) - DayOfYear(from) + DayOfYear(date)

\* mutant: the date is left out, the time of day alone is kept
due_seconds_of_time_only(t, from) ==
    (t.hour * MinutesPerHour + t.minute) * SecondsPerMinute

\* the due time "YYYY-MM-DD HH:MM" in seconds from midnight of `from`
DueSeconds(t, from) ==
    ((DaysFrom(from, t.date) * HoursPerDay + t.hour) * MinutesPerHour + t.minute)
        * SecondsPerMinute

SecondsPerDay == HoursPerDay * MinutesPerHour * SecondsPerMinute

\* date - timedelta(days=1)
prev_day(date) ==
    IF date.d > 1 THEN [date EXCEPT !.d = @ - 1]
    ELSE IF date.m > 1 THEN Date(date.y, date.m - 1, DaysInMonth(date.y, date.m - 1))
    ELSE Date(date.y - 1, MonthsPerYear, DaysInMonth(date.y - 1, MonthsPerYear))

RECURSIVE add_days(_, _)
\* date + timedelta(days=k)
add_days(date, k) ==
    IF k = 0 THEN date
    ELSE IF k > 0 THEN add_days(next_day(date), k - 1)
    ELSE add_days(prev_day(date), k + 1)

\* the due time "YYYY-MM-DD HH:MM" of a record whose time is `time` seconds
\* from midnight of `from`
due_at(time, from) ==
    [found |-> TRUE,
     date |-> add_days(from, time \div SecondsPerDay),
     hour |-> (time % SecondsPerDay) \div (MinutesPerHour * SecondsPerMinute),
     minute |-> ((time % SecondsPerDay) \div SecondsPerMinute) % MinutesPerHour]

----------------------------------------------------------------------------
(* Reminder_Processor: display format *)

MonthNames ==
    << "January", "February", "March", "April", "May", "June", "July",
       "August", "September", "October", "November", "December" >>

\* "3:00 PM": the hour of the dial without a leading zero, two digits of
\* minutes, AM or PM
format_12_hour(hour, minute) ==
    NumStr(IF hour % HoursOnDial = 0 THEN HoursOnDial ELSE hour % HoursOnDial)
        \o ":" \o Pad2(minute) \o (IF hour < HoursOnDial THEN " AM" ELSE " PM")

\* mutant: every date but today's is shown by month and day
display_time_no_tomorrow(t, date) ==
    IF t.date = date THEN format_12_hour(t.hour, t.minute)
    ELSE MonthNames[t.date.m] \o " " \o NumStr(t.date.d) \o " at "
            \o format_12_hour(t.hour, t.minute)

\* the due time t as shown on the day `date`
display_time(t, date) ==
    IF t.date = date THEN format_12_hour(t.hour, t.minute)
    ELSE IF t.date = next_day(date)
    THEN "Tomorrow at " \o format_12_hour(t.hour, t.minute)
    ELSE MonthNames[t.date.m] \o " " \o NumStr(t.date.d) \o " at "
            \o format_12_hour(t.hour, t.minute)

----------------------------------------------------------------------------
(* Command_Processor and the processors *)

Processors == <<"Info", "Reminder", "Emergency", "Health", "Entertainment">>

Keywords(p) ==
    CASE p = "Info" -> {"time", "date", "weather", "news"}
      [] p = "Reminder" -> {"reminder", "meds", "appointment"}
      [] p = "Emergency" -> {"emergency", "sos", "help"}
      [] p = "Health" -> {"exercise", "motivation"}
      [] p = "Entertainment" -> {"joke", "story", "music"}

\* Base_Processor.match: some keyword appears in the command
keyword_match(p, command) ==
    \E c \in {lower(command)} : \E k \in Keywords(p) : Contains(c, k)

\* requests for assistance that are no emergency
NonEmergencyPhrases == {"help me find"}

\* a non-emergency phrase starts at position i of s
PhraseAt(s, i) == \E ph \in NonEmergencyPhrases : Sub(s, i, i + Len(ph) - 1) = ph

RECURSIVE remove_phrases_from(_, _)
remove_phrases_from(s, i) ==
    IF i > Len(s) THEN ""
    ELSE IF PhraseAt(s, i)
    THEN LET ph == CHOOSE x \in NonEmergencyPhrases :
                       Sub(s, i, i + Len(x) - 1) = x
         IN  remove_phrases_from(s, i + Len(ph))
    ELSE CharAt(s, i) \o remove_phrases_from(s, i + 1)

\* s without the non-emergency phrases
remove_phrases(s) == remove_phrases_from(s, 1)

\* mutant: the keywords alone decide
emergency_match_keywords_only(command) == keyword_match("Emergency", command)

\* Emergency_Processor: smart matching, only clear emergency intents match
emergency_match(command) ==
    \E c \in {lower(command)} :
        \E rest \in {remove_phrases(c)} :
            \E k \in Keywords("Emergency") : Contains(rest, k)

\* mutant: the processor that handled the previous command matches again
match_or_previous(p, command) ==
    \/ handler = p
    \/ IF p = "Emergency" THEN emergency_match(command)
       ELSE keyword_match(p, command)

match(p, command) ==
    IF p = "Emergency" THEN emergency_match(command)
    ELSE keyword_match(p, command)

\* mutant: every processor is asked, the last that matches handles
last_matching(command, k) ==
    LET S == {i \in k..Len(Processors) : match(Processors[i], command)}
    IN  IF S = {} THEN 0 ELSE CHOOSE i \in S : \A j \in S : j <= i

RECURSIVE first_matching(_, _)
\* the processors from the k-th on, in order: the first that matches (0: none)
first_matching(command, k) ==
    IF k > Len(Processors) THEN 0
    ELSE IF match(Processors[k], command) THEN k
    ELSE first_matching(command, k + 1)

\* mutant: a command nobody matches goes to the last processor
route_falls_to_last(command) ==
    IF first_matching(command, 1) = 0 THEN Len(Processors)
    ELSE first_matching(command, 1)

\* CommandProcessor: the processor that handles the command (0: None)
route(command) == first_matching(command, 1)

\* the processors whose match() the routing of the command calls
consulted_by(command) ==
    SubSeq(Processors, 1,
           IF route(command) = 0 THEN Len(Processors) ELSE route(command))

\* what the processors other than ReminderProcessor answer with
handle_other(p) ==
    CASE p = "Info" -> "info"
      [] p = "Emergency" -> "emergency"
      [] p = "Health" -> "health"
      [] p = "Entertainment" -> "entertainment"
      [] OTHER -> "unhandled"

----------------------------------------------------------------------------
(* Reminder_Processor: the reminder commands *)

reminder_intent(command) ==
    IF Contains(lower(command), "delete") THEN "delete"
    ELSE IF \E k \in {"list", "show"} : Contains(lower(command), k) THEN "list"
    ELSE IF Contains(lower(command), "how many") THEN "count"
    ELSE "set"

HasNumber(s) == \E i \in 1..Len(s) : IsDigit(CharAt(s, i))

\* the number of one or two digits that starts at position i of s
number_at(s, i) ==
    IF IsDigit(CharAt(s, i + 1)) THEN NumVal(Sub(s, i, i + 1))
    ELSE NumVal(Sub(s, i, i))

\* the first number written in s
first_number(s) ==
    number_at(s, CHOOSE a \in 1..Len(s) :
                     /\ IsDigit(CharAt(s, a))
                     /\ \A b \in 1..(a - 1) : ~IsDigit(CharAt(s, b)))

\* what the user is told; the answers of the other processors and of the LLM
\* are not modelled, their kind stands for them
answer(kind) ==
    CASE kind = "clarification" -> "I couldn't understand the time"
      [] kind = "error" -> "Invalid reminder number"
      [] kind = "deleted" -> "Reminder deleted"
      [] kind = "deleted-all" -> "All reminders deleted"
      [] OTHER -> kind

Outcome(reg, s, kind) ==
    [regular |-> reg, scheduled |-> s, kind |-> kind, saved |-> FALSE,
     parsed |-> <<>>, message |-> <<answer(kind)>>]

\* "delete reminder N" with no N-th reminder: nothing deleted, an error message
index_out_of_range(reg, s) == Outcome(reg, s, "error")

\* mutant: N - 1 is used as the list index unchecked, and index -1 is the last
\* entry of the list
delete_reminder_unchecked(reg, s, n) ==
    IF n >= 1 /\ n <= Len(reg) THEN Outcome(RemoveAt(reg, n), s, "deleted")
    ELSE IF n > Len(reg) /\ n <= Len(reg) + Len(s)
    THEN Outcome(reg, RemoveAt(s, n - Len(reg)), "deleted")
    ELSE IF n = 0 /\ s # <<>>
    THEN Outcome(reg, SubSeq(s, 1, Len(s) - 1), "deleted")
    ELSE Outcome(reg, s, "error")

\* "delete reminder N": the N-th reminder of the display order, the regular
\* reminders first, then the scheduled ones
delete_reminder(reg, s, n) ==
    IF n >= 1 /\ n <= Len(reg) THEN Outcome(RemoveAt(reg, n), s, "deleted")
    ELSE IF n > Len(reg) /\ n <= Len(reg) + Len(s)
    THEN Outcome(reg, RemoveAt(s, n - Len(reg)), "deleted")
    ELSE index_out_of_range(reg, s)

\* a set command whose time is not understood: nothing saved, the user is
\* asked for the time
set_without_time(reg, s, text) == Outcome(reg, s, "clarification")

\* what the processors read in a command
Reading(command) ==
    [route |-> route(command),
     consulted |-> consulted_by(command),
     intent |-> reminder_intent(command),
     all |-> Contains(lower(command), "delete all"),
     number |-> IF HasNumber(command) THEN first_number(command) ELSE -1,
     time |-> parse_time_of_day(command),
     tomorrow |-> has_tomorrow(command),
     text |-> extract_text(command)]

\* "Reminder set for 3:00 PM: medicine"
confirmation(t, text, date) ==
    "Reminder set for " \o display_time(t, date) \o ": " \o text

\* mutant: the reminders already notified are left out of the list
list_reminders_hides_completed(reg, s, date) ==
    reg \o [i \in 1..Len(SelectSeq(s, LAMBDA r : ~r.completed)) |->
               display_time(due_at(SelectSeq(s, LAMBDA r : ~r.completed)[i].time, date), date)
                   \o ": " \o SelectSeq(s, LAMBDA r : ~r.completed)[i].text]

\* the list as shown: the regular reminders, then the scheduled ones, each with
\* its time
list_reminders(reg, s, date) ==
    reg \o [i \in 1..Len(s) |->
               display_time(due_at(s[i].time, date), date) \o ": " \o s[i].text]

\* "how many reminders": the total count
count_reminders(reg, s) == "You have " \o NumStr(Len(reg) + Len(s)) \o " reminders"

\* ReminderProcessor.handle, of a command read as u
handle_reminder(u, reg, s, id, date) ==
    LET t == resolve(u.time, u.tomorrow, date) IN
    CASE u.intent = "delete" ->
            IF u.all THEN Outcome(<<>>, <<>>, "deleted-all")
            ELSE IF u.number >= 0 THEN delete_reminder(reg, s, u.number)
            ELSE Outcome(reg, s, "clarification")
      [] u.intent = "list" ->
            [Outcome(reg, s, "list") EXCEPT !.message = list_reminders(reg, s, date)]
      [] u.intent = "count" ->
            [Outcome(reg, s, "count") EXCEPT !.message = <<count_reminders(reg, s)>>]
      [] u.intent = "set" ->
            IF t.found
            THEN [regular |-> reg,
                  scheduled |-> save_scheduled_reminder(s, id, u.text,
                                                        DueSeconds(t, date)),
                  kind |-> "confirmation", saved |-> TRUE, parsed |-> <<t>>,
                  message |-> <<confirmation(t, u.text, date)>>]
            ELSE [set_without_time(reg, s, u.text) EXCEPT !.parsed = <<t>>]

\* mutant: an error message is sent with the failure flag
json_response_flags_errors(r) ==
    [response |-> r.message, success |-> r.kind \notin {"error", "clarification"}]

\* the JSON answer of POST /api/process-command
json_response(r) == [response |-> r.message, success |-> TRUE]

\* GET /api/reminders, "reminders": the regular reminders, then the scheduled
\* ones as "text - time"
get_reminders(reg, s, date) ==
    reg \o [i \in 1..Len(s) |->
               s[i].text \o " - " \o display_time(due_at(s[i].time, date), date)]

----------------------------------------------------------------------------
\* the backend as app.py starts it, nothing queued or answered yet
Idle ==
    /\ schedPc = "sleep"
    /\ sleepLeft \in {0, TickStep}
    /\ snapshot = <<>>
    /\ scanIdx = 0
    /\ scanNow = 0
    /\ pending = <<>>
    /\ pollPc = "idle"
    /\ pollResult = <<>>
    /\ delivered = [i \in Ids |-> 0]
    /\ failed = {}
    /\ pushLog = <<>>
    /\ missed = {}
    /\ received = [i \in Ids |-> 0]
    /\ firedInScan = {}
    /\ addedLate = {}
    /\ setForNow = [i \in Ids |-> "no"]
    /\ overtaken = <<>>
    /\ dropped = {}
    /\ fresh = FALSE
    /\ dismissed = 0
    /\ handler = "none"
    /\ consulted = <<>>
    /\ response = "none"
    /\ emergencySent = FALSE
    /\ parsed = <<>>
    /\ message = <<>>
    /\ success = TRUE
    /\ messages = <<>>
    /\ utterances = <<>>
    /\ isSpeaking = FALSE
    /\ voiceStatus = "idle"
    /\ reminderRefreshCounter = 0
    /\ fetched = 0
    /\ isListening = FALSE
    /\ assistantStarted = FALSE
    /\ recognition = "off"
    /\ awaiting = <<>>
    /\ heard = {}

\* the client has fetched the list on mount
Mounted ==
    /\ reminders = get_reminders(regular, store, today)
    /\ stalePolls = 0
    /\ refetchFailed = FALSE

\* ... and nothing stored
BackendAtRest == store = <<>> /\ nextId = 1 /\ Idle

\* ... at midnight
BackendInit == now = 0 /\ BackendAtRest

\* the day of the documentation's examples
DocToday == Date(2024, 1, 15)

NoInput == [kind |-> "none"]

Init ==
    /\ BackendInit
    /\ regular = <<>>
    /\ today = DocToday
    /\ lastCommand = ""
    /\ input = NoInput
    /\ Mounted

cmdVars == <<today, lastCommand, handler, consulted, response, emergencySent,
             parsed, input, message, success>>
voiceVars == <<isListening, assistantStarted, recognition>>
shownVars == <<reminders, stalePolls, refetchFailed>>
uiVars == <<messages, utterances, isSpeaking, voiceStatus,
            reminderRefreshCounter, fetched, voiceVars, heard, overtaken, dropped>>
clientVars == <<uiVars, awaiting, shownVars>>
schedVars == <<schedPc, sleepLeft, snapshot, scanIdx, scanNow, firedInScan>>
pollVars == <<pollPc, pollResult, received>>
histVars == <<delivered, failed, pushLog, missed>>

----------------------------------------------------------------------------
(* The clock *)

\* the clock is read on a grid of half a scan period (5 s, the client's poll
\* interval); a sleeping scheduler's remaining sleep runs down with it
Advance(ticks) ==
    /\ now + TickStep <= ticks * TickStep
    /\ now' = now + TickStep
    /\ sleepLeft' = IF sleepLeft > TickStep THEN sleepLeft - TickStep ELSE 0
    /\ UNCHANGED <<regular, dismissed, cmdVars, clientVars>>
    /\ UNCHANGED <<store, nextId, schedPc, snapshot, scanIdx, scanNow, pending,
                   pollVars, histVars, firedInScan, addedLate, setForNow, fresh>>

Tick == Advance(MaxTicks)

----------------------------------------------------------------------------
(* Request path: reminder commands (Reminder_Processor) *)

\* "set reminder for <text> at <time>": the time parsed, the record saved
SetReminder(text, time) ==
    /\ nextId <= MaxIds
    /\ store' = save_scheduled_reminder(store, nextId, text, time)
    /\ nextId' = nextId + 1
    /\ addedLate' = IF now + ScanPeriod > time THEN addedLate \cup {nextId}
                    ELSE addedLate
    /\ setForNow' = [setForNow EXCEPT ![nextId] = InItsMinute(now, time)]
    /\ UNCHANGED <<regular, dismissed, cmdVars, clientVars>>
    /\ UNCHANGED <<now, schedVars, pending, pollVars, histVars, fresh>>

\* "delete all"
DeleteAll ==
    /\ store # <<>>
    /\ store' = <<>>
    /\ regular' = <<>>
    /\ UNCHANGED <<dismissed, cmdVars, clientVars>>
    /\ UNCHANGED <<now, nextId, schedVars, pending, pollVars, histVars,
                   addedLate, setForNow, fresh>>

\* "delete reminder n": by 1-based index; out of range changes nothing
DeleteReminder(n) ==
    /\ store' = delete_reminder(regular, store, n).scheduled
    /\ regular' = delete_reminder(regular, store, n).regular
    /\ UNCHANGED <<dismissed, cmdVars, clientVars>>
    /\ UNCHANGED <<now, nextId, schedVars, pending, pollVars, histVars,
                   addedLate, setForNow, fresh>>

----------------------------------------------------------------------------
(* Scheduler thread (Notification_Scheduler) *)

\* the sleep is over: load all scheduled reminders
ScanStart ==
    /\ schedPc = "sleep"
    /\ sleepLeft = 0
    /\ snapshot' = get_scheduled_reminders(store)
    /\ scanNow' = now
    /\ scanIdx' = 1
    /\ schedPc' = "check"
    /\ firedInScan' = {}
    /\ UNCHANGED <<regular, dismissed, cmdVars, clientVars>>
    /\ UNCHANGED <<now, store, nextId, sleepLeft, pending, pollVars, histVars,
                   addedLate, setForNow, fresh>>

\* (history) r is uncompleted and more than 60 s past its time at t
Overdue(r, t) == ~r.completed /\ r.time - t < -WindowPast

\* the next reminder of the list is not due, or already completed: skip it
ScanSkip ==
    /\ schedPc = "check"
    /\ scanIdx <= Len(snapshot)
    /\ \/ snapshot[scanIdx].completed
       \/ ~IsDue(snapshot[scanIdx].time, scanNow)
    /\ scanIdx' = scanIdx + 1
    /\ missed' = IF Overdue(snapshot[scanIdx], scanNow)
                 THEN missed \cup {snapshot[scanIdx].id} ELSE missed
    /\ UNCHANGED <<regular, dismissed, cmdVars, clientVars>>
    /\ UNCHANGED <<now, store, nextId, schedPc, sleepLeft, snapshot, scanNow,
                   pending, pollVars, delivered, failed, pushLog, firedInScan,
                   addedLate, setForNow, fresh>>

\* where the scan goes once the callback has returned or failed: to marking
\* the reminder completed, in both cases (fire-and-forget)
\* mutant: a failed callback leaves the scan before the marking
after_callback_skips_mark(ok) == IF ok THEN "mark" ELSE "check"

after_callback(ok) == "mark"

\* mutant: the due reminder is marked completed first, the callback is left
\* for the step after
ScanNotify_marks_first(ok) ==
    /\ schedPc = "check"
    /\ scanIdx <= Len(snapshot)
    /\ ~snapshot[scanIdx].completed
    /\ IsDue(snapshot[scanIdx].time, scanNow)
    /\ store' = mark_reminder_completed(store, snapshot[scanIdx].id)
    /\ schedPc' = "mark"
    /\ UNCHANGED <<regular, dismissed, cmdVars, clientVars>>
    /\ UNCHANGED <<now, nextId, sleepLeft, snapshot, scanIdx, scanNow, pending,
                   pollVars, histVars, firedInScan, addedLate, setForNow, fresh>>

\* the next reminder is due: notify_callback(reminder_text, reminder_id);
\* ok = FALSE is a callback that fails before it appends
ScanNotify(ok) ==
    /\ schedPc = "check"
    /\ scanIdx <= Len(snapshot)
    /\ ~snapshot[scanIdx].completed
    /\ IsDue(snapshot[scanIdx].time, scanNow)
    /\ LET r == snapshot[scanIdx] IN
        /\ pending' = IF ok THEN notify_user(pending, r.text, r.id) ELSE pending
        /\ fresh' = IF ok THEN FALSE ELSE fresh
        /\ delivered' = [delivered EXCEPT ![r.id] = @ + 1]
        /\ failed' = IF ok THEN failed ELSE failed \cup {r.id}
        /\ pushLog' = IF ok THEN Append(pushLog, r.id) ELSE pushLog
        /\ firedInScan' = firedInScan \cup {r.id}
    /\ schedPc' = after_callback(ok)
    /\ UNCHANGED <<regular, dismissed, cmdVars, clientVars>>
    /\ UNCHANGED <<now, store, nextId, sleepLeft, snapshot, scanIdx, scanNow,
                   pollVars, missed, addedLate, setForNow>>

\* mutant: the scan writes back the list it loaded, with the flag set
ScanMark_saves_loaded_list ==
    /\ schedPc = "mark"
    /\ store' = mark_reminder_completed(snapshot, snapshot[scanIdx].id)
    /\ scanIdx' = scanIdx + 1
    /\ schedPc' = "check"
    /\ UNCHANGED <<regular, dismissed, cmdVars, clientVars>>
    /\ UNCHANGED <<now, nextId, sleepLeft, snapshot, scanNow, pending,
                   pollVars, histVars, firedInScan, addedLate, setForNow, fresh>>

\* then the reminder is marked completed, whether or not the callback failed
ScanMark ==
    /\ schedPc = "mark"
    /\ store' = mark_reminder_completed(store, snapshot[scanIdx].id)
    /\ scanIdx' = scanIdx + 1
    /\ schedPc' = "check"
    /\ UNCHANGED <<regular, dismissed, cmdVars, clientVars>>
    /\ UNCHANGED <<now, nextId, sleepLeft, snapshot, scanNow, pending,
                   pollVars, histVars, firedInScan, addedLate, setForNow, fresh>>

\* the list is done: sleep for the scan period
ScanEnd ==
    /\ schedPc = "check"
    /\ scanIdx > Len(snapshot)
    /\ schedPc' = "sleep"
    /\ sleepLeft' = ScanPeriod
    /\ snapshot' = <<>>
    /\ scanIdx' = 0
    /\ scanNow' = 0
    /\ firedInScan' = {}
    /\ UNCHANGED <<regular, dismissed, cmdVars, clientVars>>
    /\ UNCHANGED <<now, store, nextId, pending, pollVars, histVars, addedLate, setForNow,
                   fresh>>

----------------------------------------------------------------------------
(* Request path: the notification queue (app.py) *)

\* mutant: the oldest notification is taken off, whatever its id
dismiss_oldest(q, id) == IF q = <<>> THEN q ELSE Tail(q)

\* DELETE /api/notifications/<reminder_id>
dismiss(q, id) == SelectIds(q, {id})

DismissNotification(id) ==
    /\ pollPc = "idle"
    /\ pending' = dismiss(pending, id)
    /\ dismissed' = id
    /\ UNCHANGED <<regular, cmdVars, clientVars>>
    /\ UNCHANGED <<now, store, nextId, schedVars, pollVars, histVars,
                   addedLate, setForNow, fresh>>

\* mutant: newest first
RECURSIVE Reverse(_)
Reverse(q) == IF q = <<>> THEN <<>> ELSE Append(Reverse(Tail(q)), Head(q))

returned_reversed(q) == Reverse(q)

\* what the endpoint returns of pending_notifications: all of it, as it stands
returned(q) == q

\* mutant: the list is not cleared
cleared_keeps(q) == q

\* pending_notifications after the clear
cleared(q) == <<>>

\* GET /api/notifications, first half: the pending notifications are read
DrainCopy ==
    /\ pollPc = "idle"
    /\ pollResult' = returned(pending)
    /\ pollPc' = "copied"
    /\ UNCHANGED <<regular, dismissed, cmdVars, clientVars>>
    /\ UNCHANGED <<now, store, nextId, schedVars, pending, received, histVars,
                   addedLate, setForNow, fresh>>

\* second half: then the list is cleared and the response sent
DrainClear ==
    /\ pollPc = "copied"
    /\ pending' = cleared(pending)
    /\ fresh' = TRUE
    /\ pollPc' = "sent"
    /\ UNCHANGED <<regular, dismissed, cmdVars, clientVars>>
    /\ UNCHANGED <<now, store, nextId, schedVars, pollResult, received,
                   histVars, addedLate, setForNow>>

----------------------------------------------------------------------------
(* Client: notificationInterval of App.js *)

\* what the client shows and says
Client ==
    [messages |-> messages, utterances |-> utterances,
     isSpeaking |-> isSpeaking, voiceStatus |-> voiceStatus]

\* mutant: nothing is added to the chat before the assistant is started
addMessage_once_started(ui, type, content) ==
    IF assistantStarted
    THEN [ui EXCEPT !.messages = Append(@, [type |-> type, content |-> content])]
    ELSE ui

\* addMessage(type, content)
addMessage(ui, type, content) ==
    [ui EXCEPT !.messages = Append(@, [type |-> type, content |-> content])]

\* speechSynthesis.cancel(): every utterance leaves the queue, the one in
\* progress stops
cancel(q) == <<>>

\* mutant: the utterance is queued behind the ongoing speech
speak_without_cancel(ui, text) ==
    [ui EXCEPT !.utterances = Append(@, text),
               !.isSpeaking = TRUE, !.voiceStatus = "speaking"]

\* speak(text): ongoing speech is cancelled, then the utterance is started
speak(ui, text) ==
    [ui EXCEPT !.utterances = Append(cancel(@), text),
               !.isSpeaking = TRUE, !.voiceStatus = "speaking"]

\* notif.message || `Reminder: ${notif.text}`
message_text(notif) ==
    IF "message" \in DOMAIN notif /\ notif.message # <<>>
    THEN notif.message[1] \o notif.message[2]
    ELSE "Reminder: " \o notif.text

RECURSIVE show_notifications_newest_first(_, _)
\* mutant: the last notification of the response is handled first
show_notifications_newest_first(ui, notifs) ==
    IF notifs = <<>> THEN ui
    ELSE speak(addMessage(show_notifications_newest_first(ui, Tail(notifs)),
                          "assistant", message_text(Head(notifs))),
               message_text(Head(notifs)))

RECURSIVE show_notifications(_, _)
\* notifications.forEach: each is added to the chat and spoken
show_notifications(ui, notifs) ==
    IF notifs = <<>> THEN ui
    ELSE show_notifications(
             speak(addMessage(ui, "assistant", message_text(Head(notifs))),
                   message_text(Head(notifs))),
             Tail(notifs))

\* mutant: the counter is reset by a refresh after a notification too
refresh_due_or_notified(counter, notifs) ==
    counter + 1 >= RefreshEvery \/ notifs # <<>>

\* mutant: the periodic refresh is due at every 7th check
refresh_due_seventh(counter, notifs) == counter + 1 > RefreshEvery

\* reminderRefreshCounter++ reaches 6: the periodic refresh is due
refresh_due(counter, notifs) == counter + 1 >= RefreshEvery

\* the answers a fetch of the list may get: none at all when it fails
Responses(calls) == IF calls = 0 THEN {TRUE} ELSE BOOLEAN

\* the list GET /api/reminders answers with now
Stored == get_reminders(regular, store, today)

\* fetchReminders(), called the given number of times: the list is replaced by
\* the answer; a failed fetch is logged and leaves the list as it was
fetchReminders(calls, ok, poll) ==
    \E stored \in {Stored} :
    \E list \in {IF calls > 0 /\ ok THEN stored ELSE reminders} :
        /\ fetched' = calls
        /\ reminders' = list
        /\ stalePolls' = IF list = stored \/ lastCommand = "" THEN 0
                         ELSE IF poll /\ stalePolls < RefreshEvery THEN stalePolls + 1
                         ELSE stalePolls
        /\ refetchFailed' = /\ list # stored
                            /\ lastCommand # ""
                            /\ refetchFailed \/ (calls > 0 /\ ~ok)

\* the callback with the response in hand: every notification is added to
\* the chat and spoken, the reminders list is refreshed after notifications
\* and every 6th check
Receive(notifications) ==
    /\ received' = [i \in Ids |-> received[i] + CountOf(notifications, i)]
    /\ messages' = show_notifications(Client, notifications).messages
    /\ utterances' = show_notifications(Client, notifications).utterances
    /\ isSpeaking' = show_notifications(Client, notifications).isSpeaking
    /\ voiceStatus' = show_notifications(Client, notifications).voiceStatus
    /\ reminderRefreshCounter' =
          IF refresh_due(reminderRefreshCounter, notifications) THEN 0
          ELSE reminderRefreshCounter + 1
    /\ \E calls \in {(IF notifications # <<>> THEN 1 ELSE 0)
                        + (IF refresh_due(reminderRefreshCounter, notifications)
                           THEN 1 ELSE 0)} :
          \E ok \in Responses(calls) : fetchReminders(calls, ok, TRUE)
    /\ UNCHANGED <<regular, dismissed, cmdVars, voiceVars, awaiting, heard>>
    /\ UNCHANGED <<now, store, nextId, schedVars, pending, histVars,
                   addedLate, setForNow, fresh>>

\* the response of the running poll arrives
PollReceive ==
    /\ pollPc = "sent"
    /\ Receive(pollResult)
    /\ pollResult' = <<>>
    /\ pollPc' = "idle"
    /\ UNCHANGED <<overtaken, dropped>>

\* the interval fires again while the response is still on its way: the
\* earlier callback goes on waiting for it
PollOvertaken ==
    /\ pollPc = "sent"
    /\ Len(overtaken) < MaxOvertaken
    /\ overtaken' = Append(overtaken, pollResult)
    /\ UNCHANGED dropped
    /\ pollResult' = <<>>
    /\ pollPc' = "idle"
    /\ fetched' = 0
    /\ UNCHANGED shownVars
    /\ UNCHANGED <<regular, dismissed, cmdVars, messages, utterances, isSpeaking,
                   voiceStatus, reminderRefreshCounter, voiceVars, awaiting,
                   heard>>
    /\ UNCHANGED <<now, store, nextId, schedVars, pending, received, histVars,
                   addedLate, setForNow, fresh>>

\* the response of an overtaken poll arrives, after all
OvertakenReceive ==
    /\ overtaken # <<>>
    /\ Receive(Head(overtaken))
    /\ overtaken' = Tail(overtaken)
    /\ UNCHANGED dropped
    /\ UNCHANGED <<pollPc, pollResult>>

\* the request of an overtaken poll fails, after all
OvertakenError ==
    /\ overtaken # <<>>
    /\ overtaken' = Tail(overtaken)
    /\ dropped' = dropped \cup IdsOf(Head(overtaken))
    /\ fetched' = 0
    /\ UNCHANGED shownVars
    /\ UNCHANGED <<regular, dismissed, cmdVars, messages, utterances, isSpeaking,
                   voiceStatus, reminderRefreshCounter, voiceVars, awaiting,
                   heard>>
    /\ UNCHANGED <<now, store, nextId, schedVars, pending, pollVars, histVars,
                   addedLate, setForNow, fresh>>

\* mutant: the catch tells the user about the failed check
PollError_tells_user ==
    /\ pollPc = "sent"
    /\ pollResult' = <<>>
    /\ pollPc' = "idle"
    /\ dropped' = dropped \cup IdsOf(pollResult)
    /\ fetched' = 0
    /\ UNCHANGED shownVars
    /\ messages' = speak(addMessage(Client, "assistant", "Error"), "Error").messages
    /\ utterances' = speak(addMessage(Client, "assistant", "Error"), "Error").utterances
    /\ isSpeaking' = TRUE
    /\ voiceStatus' = "speaking"
    /\ UNCHANGED <<regular, dismissed, cmdVars, reminderRefreshCounter,
                   voiceVars, awaiting, heard, overtaken>>
    /\ UNCHANGED <<now, store, nextId, schedVars, pending, received, histVars,
                   addedLate, setForNow, fresh>>

\* fetch or response.json() throws: the catch logs, nothing is shown, the
\* counter is not reached
PollError ==
    /\ pollPc = "sent"
    /\ pollResult' = <<>>
    /\ pollPc' = "idle"
    /\ dropped' = dropped \cup IdsOf(pollResult)
    /\ fetched' = 0
    /\ UNCHANGED shownVars
    /\ UNCHANGED <<regular, dismissed, cmdVars, messages, utterances, isSpeaking,
                   voiceStatus, reminderRefreshCounter, voiceVars, awaiting,
                   heard, overtaken>>
    /\ UNCHANGED <<now, store, nextId, schedVars, pending, received, histVars,
                   addedLate, setForNow, fresh>>

\* utterance.onend: the utterance in progress was spoken to its end, the next
\* in the queue starts
UtteranceEnd ==
    /\ utterances # <<>>
    /\ heard' = heard \cup {Head(utterances)}
    /\ utterances' = Tail(utterances)
    /\ isSpeaking' = FALSE
    /\ voiceStatus' = "idle"
    /\ UNCHANGED <<regular, dismissed, cmdVars, messages, reminderRefreshCounter,
                   fetched, voiceVars, awaiting, overtaken, dropped, shownVars>>
    /\ UNCHANGED <<now, store, nextId, schedVars, pending, pollVars, histVars,
                   addedLate, setForNow, fresh>>

\* utterance.onerror: the utterance in progress failed
UtteranceError ==
    /\ utterances # <<>>
    /\ utterances' = Tail(utterances)
    /\ isSpeaking' = FALSE
    /\ voiceStatus' = "idle"
    /\ UNCHANGED <<regular, dismissed, cmdVars, messages, reminderRefreshCounter,
                   fetched, voiceVars, awaiting, heard, overtaken, dropped,
                   shownVars>>
    /\ UNCHANGED <<now, store, nextId, schedVars, pending, pollVars, histVars,
                   addedLate, setForNow, fresh>>

backendVars == <<now, store, nextId, schedVars, pending, pollVars, histVars,
                 addedLate, setForNow, fresh, regular, dismissed, cmdVars>>

\* the words of a command after which the lists are fetched again
RefreshWords == {"reminder", "contact", "delete", "remove", "clear"}

\* the greeting of the Start Assistant button
Greeting == "Hello! I am your elderly care assistant. How can I help you?"

\* the Start Assistant button, shown until the assistant is started: the
\* greeting is added to the chat and spoken
StartAssistant ==
    /\ ~assistantStarted
    /\ messages' = speak(addMessage(Client, "assistant", Greeting), Greeting).messages
    /\ utterances' = speak(addMessage(Client, "assistant", Greeting), Greeting).utterances
    /\ isSpeaking' = TRUE
    /\ voiceStatus' = "speaking"
    /\ assistantStarted' = TRUE
    /\ fetched' = 0
    /\ UNCHANGED shownVars
    /\ UNCHANGED <<backendVars, reminderRefreshCounter, isListening, recognition,
                   awaiting, heard, overtaken, dropped>>

\* toggleListening, of the microphone button shown once the assistant is
\* started: recognition is stopped, or started
ToggleListening ==
    /\ assistantStarted
    /\ IF isListening
       THEN /\ recognition' = "off"
            /\ isListening' = FALSE
            /\ voiceStatus' = "idle"
       ELSE /\ recognition = "off"
            /\ recognition' = "on"
            /\ isListening' = TRUE
            /\ voiceStatus' = "listening"
    /\ fetched' = 0
    /\ UNCHANGED shownVars
    /\ UNCHANGED <<backendVars, messages, utterances, isSpeaking,
                   reminderRefreshCounter, assistantStarted, awaiting, heard,
                   overtaken, dropped>>

\* handleCommand(command) up to the request: the command is added to the
\* chat; listening is isListening as the render saw it that the called
\* handleCommand belongs to
handleCommand(command, listening, voice) ==
    /\ Cardinality({i \in 1..Len(messages) : messages[i].type = "user"}) < MaxTyped
    /\ messages' = addMessage(Client, "user", command).messages
    /\ voiceStatus' = IF listening THEN "processing" ELSE voiceStatus
    /\ awaiting' = Append(awaiting, [command |-> command, isListening |-> listening,
                                     voice |-> voice, served |-> FALSE,
                                     answer |-> <<>>])
    /\ fetched' = 0
    /\ UNCHANGED shownVars
    /\ UNCHANGED <<backendVars, utterances, isSpeaking, reminderRefreshCounter,
                   isListening, assistantStarted, heard, overtaken, dropped>>

\* a command typed or chosen from the quick actions, in the panel shown once
\* the assistant is started
HandleCommand(command) ==
    /\ assistantStarted
    /\ handleCommand(command, isListening, FALSE)
    /\ UNCHANGED recognition

\* recognition.onresult: the transcript is handled as a command, by the
\* handleCommand of the first render (the handlers are set once, on mount),
\* which saw isListening = false; recognition ends after one result
RecognitionResult(transcript) ==
    /\ recognition = "on"
    /\ handleCommand(transcript, FALSE, TRUE)
    /\ recognition' = "heard"

\* recognition.onerror, and the end of recognition that follows it
RecognitionError ==
    /\ recognition = "on"
    /\ recognition' = "off"
    /\ isListening' = FALSE
    /\ fetched' = 0
    /\ UNCHANGED shownVars
    /\ UNCHANGED <<backendVars, messages, utterances, isSpeaking, voiceStatus,
                   reminderRefreshCounter, assistantStarted, awaiting, heard,
                   overtaken, dropped>>

\* recognition.onend, after the result
RecognitionEnd ==
    /\ recognition = "heard"
    /\ recognition' = "off"
    /\ isListening' = FALSE
    /\ fetched' = 0
    /\ UNCHANGED shownVars
    /\ UNCHANGED <<backendVars, messages, utterances, isSpeaking, voiceStatus,
                   reminderRefreshCounter, assistantStarted, awaiting, heard,
                   overtaken, dropped>>

\* what handleCommand shows and says of the answer
answered(ui, text) ==
    IF text = "" THEN ui ELSE speak(addMessage(ui, "assistant", text), text)

\* handleCommand after the answer arrived: it is added to the chat and spoken,
\* the lists are fetched again after a command about them
CommandResponse(text) ==
    /\ awaiting # <<>>
    /\ messages' = answered(Client, text).messages
    /\ utterances' = answered(Client, text).utterances
    /\ isSpeaking' = answered(Client, text).isSpeaking
    /\ voiceStatus' = IF Head(awaiting).isListening THEN "idle"
                      ELSE answered(Client, text).voiceStatus
    /\ \E calls \in {IF \E w \in RefreshWords : Contains(Head(awaiting).command, w)
                        THEN 1 ELSE 0} :
          \E ok \in Responses(calls) : fetchReminders(calls, ok, FALSE)
    /\ awaiting' = Tail(awaiting)
    /\ UNCHANGED <<backendVars, reminderRefreshCounter, voiceVars, heard,
                   overtaken, dropped>>

\* fetch or response.json() throws in handleCommand: the catch shows and says
\* an apology
CommandError ==
    /\ awaiting # <<>>
    /\ messages' = answered(Client, "Sorry, I had trouble processing that.").messages
    /\ utterances' = answered(Client, "Sorry, I had trouble processing that.").utterances
    /\ isSpeaking' = TRUE
    /\ voiceStatus' = "speaking"
    /\ fetched' = 0
    /\ UNCHANGED shownVars
    /\ awaiting' = Tail(awaiting)
    /\ UNCHANGED <<backendVars, reminderRefreshCounter, voiceVars, heard,
                   overtaken, dropped>>

----------------------------------------------------------------------------
Next ==
    \/ Tick
    \/ \E c \in SetCommands : SetReminder(c.text, c.time)
    \/ DeleteAll
    \/ \E n \in 0..(MaxIds + 1) : DeleteReminder(n)
    \/ ScanStart
    \/ ScanSkip
    \/ \E ok \in BOOLEAN : ScanNotify(ok)
    \/ ScanMark
    \/ ScanEnd

Spec == Init /\ [][Next]_vars

\* the scheduler never stalls: it scans as soon as its sleep is over, and a
\* scan takes no time on the clock's grid
TimelyTick ==
    /\ schedPc = "sleep"
    /\ sleepLeft > 0
    /\ Advance(PeriodicMaxTicks)

NextPeriodic ==
    \/ TimelyTick
    \/ \E c \in SetCommands : SetReminder(c.text, c.time)
    \/ DeleteAll
    \/ \E n \in 0..(MaxIds + 1) : DeleteReminder(n)
    \/ ScanStart
    \/ ScanSkip
    \/ \E ok \in BOOLEAN : ScanNotify(ok)
    \/ ScanMark
    \/ ScanEnd

SpecPeriodic == Init /\ [][NextPeriodic]_vars

\* the queue between the scheduler and the polling client, for reminders due
\* at once
QueueTick == Advance(QueueMaxTicks)

NextQueue ==
    \/ QueueTick
    \/ \E c \in {x \in SetCommands : x.time = 0} : SetReminder(c.text, c.time)
    \/ \E n \in 1..MaxIds : DeleteReminder(n)
    \/ ScanStart
    \/ ScanSkip
    \/ \E ok \in BOOLEAN : ScanNotify(ok)
    \/ ScanMark
    \/ ScanEnd
    \/ \E id \in Ids : DismissNotification(id)
    \/ DrainCopy
    \/ DrainClear
    \/ PollReceive
    \/ PollError

SpecQueue == Init /\ [][NextQueue]_vars

\* the notification queue alone: the delivery callback called for reminders
\* not delivered before, and dismiss requests
PushNotification(text, id) ==
    /\ \A k \in 1..Len(pushLog) : pushLog[k] # id
    /\ pending' = notify_user(pending, text, id)
    /\ pushLog' = Append(pushLog, id)
    /\ fresh' = FALSE
    /\ UNCHANGED <<now, store, nextId, schedVars, pollVars, delivered, failed,
                   missed, addedLate, setForNow, regular, dismissed, cmdVars, clientVars>>

NextDismiss ==
    \/ \E c \in SetCommands : \E id \in 1..MaxQueued : PushNotification(c.text, id)
    \/ \E id \in 1..MaxQueued : DismissNotification(id)

SpecDismiss == Init /\ [][NextDismiss]_vars

\* the commands typed and the answers of the backend in the specification of
\* the client
TypedCommands == {"what time is it", "set reminder for medicine at 3pm"}

Answers == {"", "Reminder set for 3:00 PM: medicine"}

\* the text of the reminder with the given id
ReminderText(id) == IF id = 1 THEN "medicine" ELSE "water"

\* the client of App.js with the notification queue of the backend
NextClient ==
    \/ StartAssistant
    \/ \E id \in Ids : PushNotification(ReminderText(id), id)
    \/ DrainCopy
    \/ DrainClear
    \/ PollReceive
    \/ PollError
    \/ UtteranceEnd
    \/ UtteranceError
    \/ \E command \in TypedCommands : HandleCommand(command)
    \/ \E text \in Answers : CommandResponse(text)
    \/ CommandError

SpecClient == Init /\ [][NextClient]_vars

\* the voice side of the client: microphone, recognition, commands, speech
Transcripts == {"what time is it"}

NextVoice ==
    \/ StartAssistant
    \/ ToggleListening
    \/ \E transcript \in Transcripts : RecognitionResult(transcript)
    \/ RecognitionError
    \/ RecognitionEnd
    \/ \E command \in TypedCommands : HandleCommand(command)
    \/ \E text \in Answers : CommandResponse(text)
    \/ CommandError
    \/ UtteranceEnd
    \/ UtteranceError

SpecVoice == Init /\ [][NextVoice]_vars

\* polls that overlap: a response may arrive after the next poll was answered
NextOverlap ==
    \/ \E id \in Ids : PushNotification(ReminderText(id), id)
    \/ DrainCopy
    \/ DrainClear
    \/ PollReceive
    \/ PollError
    \/ PollOvertaken
    \/ OvertakenReceive
    \/ OvertakenError

SpecOverlap == Init /\ [][NextOverlap]_vars

----------------------------------------------------------------------------
(* Request path: POST /api/process-command *)

\* the commands sent
Commands ==
    { "what time is it",
      "what is the weather",
      "reminder about the news",
      "set reminder for medicine at 3pm",
      "set reminder for water tomorrow at 10am",
      "Set Reminder for pills at 12:30 AM",
      "set reminder to call for help at 9 pm",
      "set reminder for pills",
      "set reminder at 3pm",
      "list reminders",
      "how many reminders",
      "delete all reminders",
      "emergency help",
      "help",
      "help me find a store",
      "please help me find my sos button",
      "i need motivation",
      "play music for my exercise",
      "tell me a joke",
      "hello there" }
    \cup {"delete reminder " \o NumStr(n) : n \in 0..(MaxIds + 2)}

\* the commands sent while the scheduler runs: a reminder for the first
\* minute of the day, and the ways to delete it
ScheduleCommands ==
    { "set reminder for medicine at 12am",
      "delete reminder 1",
      "delete all reminders" }

\* the commands sent as the processors read them (a command reads the same
\* every time it is sent)
Read == [c \in Commands \cup ScheduleCommands |-> Reading(c)]

\* CommandProcessor.process(command): the processors are asked in order, the
\* first that matches handles the command; no match is left to the LLM
process(cmd) ==
    LET u == Read[cmd]
        p == IF u.route = 0 THEN "none" ELSE Processors[u.route]
        r == IF p = "Reminder"
             THEN handle_reminder(u, regular, store, nextId, today)
             ELSE Outcome(regular, store, handle_other(p))
    IN  /\ r.saved => nextId <= MaxIds
        /\ lastCommand' = cmd
        /\ handler' = p
        /\ consulted' = u.consulted
        /\ response' = r.kind
        /\ emergencySent' = (p = "Emergency")
        /\ parsed' = r.parsed
        /\ message' = json_response(r).response
        /\ success' = json_response(r).success
        /\ regular' = r.regular
        /\ store' = r.scheduled
        /\ nextId' = IF r.saved THEN nextId + 1 ELSE nextId
        /\ addedLate' = IF r.saved /\ now + ScanPeriod > DueSeconds(r.parsed[1], today)
                        THEN addedLate \cup {nextId} ELSE addedLate
        /\ setForNow' = IF r.saved
                        THEN [setForNow EXCEPT
                                ![nextId] = InItsMinute(now, DueSeconds(r.parsed[1], today))]
                        ELSE setForNow
        /\ stalePolls' = IF regular' # regular \/ store' # store THEN 0 ELSE stalePolls
        /\ refetchFailed' = (refetchFailed /\ regular' = regular /\ store' = store)
        /\ UNCHANGED <<now, schedVars, pending, pollVars, histVars, fresh,
                       today, input, dismissed, uiVars, reminders>>

\* a command that reaches the backend by itself
ProcessCommand(cmd) == process(cmd) /\ UNCHANGED awaiting

\* the POST of a waiting handleCommand reaches the backend, which answers it
ServeCommand ==
    \E k \in 1..Len(awaiting) :
        /\ ~awaiting[k].served
        /\ \A j \in 1..(k - 1) : awaiting[j].served
        /\ process(awaiting[k].command)
        /\ awaiting' = [awaiting EXCEPT ![k].served = TRUE, ![k].answer = message']

\* the data file may hold regular reminders of earlier versions
InitCommands ==
    /\ BackendInit
    /\ regular \in {<<>>, <<"take medicine">>}
    /\ today = DocToday
    /\ lastCommand = ""
    /\ input = NoInput
    /\ Mounted

NextCommands == \E cmd \in Commands : ProcessCommand(cmd)

SpecCommands == InitCommands /\ [][NextCommands]_vars

\* the commands and the scheduler thread side by side
ScheduleTick == Advance(ScheduleMaxTicks)

NextSchedule ==
    \/ ScheduleTick
    \/ \E cmd \in ScheduleCommands : ProcessCommand(cmd)
    \/ ScanStart
    \/ ScanSkip
    \/ \E ok \in BOOLEAN : ScanNotify(ok)
    \/ ScanMark
    \/ ScanEnd

SpecSchedule == Init /\ [][NextSchedule]_vars

----------------------------------------------------------------------------
(* The reminders list of the client and the reminders of the backend *)

\* the commands typed: two that set a reminder, the second without a word the
\* client looks for, one that deletes, one that changes nothing
RefreshCommands ==
    { "set reminder for medicine at 3pm",
      "Set Reminder for pills at 12:30 AM",
      "delete all reminders",
      "what time is it" }

\* the answer as handleCommand shows it: the first line of data.response
AnswerText(lines) == IF lines = <<>> THEN "" ELSE lines[1]

\* the answer of the backend to the oldest waiting command arrives
ServedResponse ==
    /\ awaiting # <<>>
    /\ Head(awaiting).served
    /\ CommandResponse(AnswerText(Head(awaiting).answer))

NextRefresh ==
    \/ StartAssistant
    \/ \E command \in RefreshCommands : HandleCommand(command)
    \/ ServeCommand
    \/ ServedResponse
    \/ CommandError
    \/ DrainCopy
    \/ DrainClear
    \/ PollReceive
    \/ PollError

\* one reminder is stored already
InitRefresh ==
    /\ Idle
    /\ now = 0
    /\ sleepLeft = 0
    /\ store = <<ScheduledReminder(1, "water", 540 * SecondsPerMinute)>>
    /\ nextId = 2
    /\ regular = <<>>
    /\ today = DocToday
    /\ lastCommand = ""
    /\ input = NoInput
    /\ Mounted

SpecRefresh == InitRefresh /\ [][NextRefresh]_vars

----------------------------------------------------------------------------
(* List, count and delete by index on a data file with a history *)

\* the times stored: 9:00 of the current day, 15:30 of the next
IndexTimes == {540 * SecondsPerMinute, SecondsPerDay + 930 * SecondsPerMinute}

\* the scheduled reminders at the start: one or two, notified already or not
IndexLists ==
    {<<[ScheduledReminder(1, "medicine", t) EXCEPT !.completed = a]>> :
          t \in IndexTimes, a \in BOOLEAN}
    \cup {<<[ScheduledReminder(1, "medicine", t) EXCEPT !.completed = a],
            [ScheduledReminder(2, "water", u) EXCEPT !.completed = b]>> :
              t \in IndexTimes, u \in IndexTimes, a \in BOOLEAN, b \in BOOLEAN}

InitIndex ==
    /\ Idle
    /\ now = 0
    /\ sleepLeft = 0
    /\ store \in IndexLists
    /\ nextId = Len(store) + 1
    /\ regular \in {<<>>, <<"take medicine">>}
    /\ today = DocToday
    /\ lastCommand = ""
    /\ input = NoInput
    /\ Mounted

IndexCommands ==
    {"list reminders", "how many reminders"}
    \cup {"delete reminder " \o NumStr(n) : n \in 0..(MaxIds + 2)}

NextIndex == \E cmd \in IndexCommands : ProcessCommand(cmd)

SpecIndex == InitIndex /\ [][NextIndex]_vars

----------------------------------------------------------------------------
(* The time parser on its own *)

Meridiems == {"am", "pm", "AM", "Pm"}

\* the minutes as written; -1: none written
MinutesWritten == {-1, 0, 5, 30, 59}

TimeInputs ==
    [kind : {"12h"}, h : 1..HoursOnDial, mm : MinutesWritten,
     meridiem : Meridiems, space : {"", " "}, tomorrow : {"", "before", "after"}]
    \cup
    [kind : {"24h"}, h : {0, 9, 15, 23}, mm : {0, 30, 59},
     meridiem : {""}, space : {""}, tomorrow : {"", "before", "after"}]
    \cup
    [kind : {"text"}, h : {0}, mm : {-1},
     meridiem : {""}, space : {""}, tomorrow : {"", "before", "after"}]
    \cup
    { i \in [kind : {"malformed"}, h : {0, 10, 13, 24, 25}, mm : {-1, 0, 60, 75},
             meridiem : {"", "am", "pm"}, space : {""}, tomorrow : {"", "after"}] :
        /\ i.meridiem = "" => i.mm >= 0
        /\ \/ i.mm >= MinutesPerHour
           \/ i.meridiem = "" /\ i.h >= HoursPerDay
           \/ i.meridiem # "" /\ i.h \notin 1..HoursOnDial }

\* the days the commands are given on: inside a month, at the end of months
\* of 31, 30, 29 and 28 days, at the end of a year
Dates ==
    { DocToday, Date(2024, 1, 31), Date(2024, 4, 30), Date(2024, 2, 29),
      Date(2023, 2, 28), Date(2024, 12, 31) }

\* the time as the user writes it
Written(i) ==
    NumStr(i.h) \o (IF i.mm < 0 THEN "" ELSE ":" \o Pad2(i.mm))
        \o i.space \o i.meridiem

\* the command the user gives
TextOf(i) ==
    "remind me "
        \o (IF i.tomorrow = "before" THEN "tomorrow " ELSE "")
        \o (IF i.kind = "text" THEN "to call" ELSE "at " \o Written(i))
        \o (IF i.tomorrow = "after" THEN " tomorrow" ELSE "")

\* the times of day the commands are given at: midnight and noon
ClockReadings == {0, (HoursPerDay \div 2) * MinutesPerHour * SecondsPerMinute}

InitParser ==
    /\ BackendAtRest
    /\ now \in ClockReadings
    /\ sleepLeft = 0
    /\ regular = <<>>
    /\ today \in Dates
    /\ input \in TimeInputs
    /\ lastCommand = TextOf(input)
    /\ Mounted

\* ReminderProcessor parses the time of the command
ParseCommand ==
    /\ parsed = <<>>
    /\ parsed' = <<parse_time(lastCommand, today)>>
    /\ UNCHANGED <<now, store, nextId, schedVars, pending, pollVars, histVars,
                   addedLate, setForNow, fresh, regular, dismissed, today, lastCommand,
                   handler, consulted, response, emergencySent, input,
                   message, success, clientVars>>

NextParser == ParseCommand

SpecParser == InitParser /\ [][NextParser]_vars

----------------------------------------------------------------------------
(* The list of reminders on its own *)

\* reminders of the day before, of the day, of the next day and of the day
\* after it
DayOffsets == {-1, 0, 1, 2}

\* their times of day, in minutes from midnight: 0:05, 9:00, 12:00, 15:30 and
\* 23:59
MinutesOfDay == {5, 540, 720, 930, 1439}

StoredTimes ==
    {k * SecondsPerDay + m * SecondsPerMinute : k \in DayOffsets, m \in MinutesOfDay}

\* the scheduled reminders the data file holds at the start: one or two
StoredLists ==
    {<<ScheduledReminder(1, "medicine", t)>> : t \in StoredTimes}
    \cup {<<ScheduledReminder(1, "medicine", t), ScheduledReminder(2, "water", u)>> :
              t \in StoredTimes, u \in StoredTimes}

InitListing ==
    /\ Idle
    /\ now = 0
    /\ sleepLeft = 0
    /\ store \in StoredLists
    /\ nextId = Len(store) + 1
    /\ regular \in {<<>>, <<"take medicine">>}
    /\ today \in Dates
    /\ lastCommand = ""
    /\ input = NoInput
    /\ Mounted

NextListing == \E cmd \in {"list reminders"} : ProcessCommand(cmd)

SpecListing == InitListing /\ [][NextListing]_vars

----------------------------------------------------------------------------
(* Properties *)

RecordOf(s, id) == CHOOSE r \in {s[i] : i \in 1..Len(s)} : r.id = id

\* a scan has gone past entry i of its list
Passed(i) ==
    /\ schedPc \in {"check", "mark"}
    /\ i \in 1..Len(snapshot)
    /\ i < scanIdx

\* C1: over any scans, set and delete commands, notify_callback is called at
\* most once for any reminder id.
C1_NoDoubleDelivery == \A id \in Ids : delivered[id] <= 1

\* a later scan has passed a delivered reminder that was still inside the window
C1_Witness ==
    \E i \in 1..Len(snapshot) :
        /\ Passed(i)
        /\ snapshot[i].completed
        /\ delivered[snapshot[i].id] = 1
        /\ snapshot[i].time - scanNow >= -WindowPast
        /\ snapshot[i].time - scanNow <= WindowFuture

\* C2: a reminder is created with completed = FALSE, and no step takes the flag
\* of a stored reminder from TRUE back to FALSE: it changes once at most.
C2_CompletedOnce ==
    [][\A id \in IdsOf(store') :
          IF id \in IdsOf(store)
          THEN RecordOf(store, id).completed => RecordOf(store', id).completed
          ELSE ~RecordOf(store', id).completed]_vars

\* a set command has run after an earlier reminder was completed
C2_Witness ==
    /\ Len(store) = 2
    /\ store[1].completed
    /\ ~store[2].completed
    /\ delivered[store[1].id] = 1
    /\ delivered[store[2].id] = 0

\* entry i of the running scan's list has been decided: passed, or notified
\* and waiting for its mark
Decided(i) ==
    \/ Passed(i)
    \/ schedPc = "mark" /\ i = scanIdx

\* C4: in a scan at time scanNow, an uncompleted reminder is fired if and only
\* if -60 <= time - scanNow <= +10, both ends included; a reminder the scan
\* read as completed is never fired.
C4_DueWindow ==
    /\ firedInScan \subseteq IdsOf(snapshot)
    /\ \A i \in 1..Len(snapshot) :
          Decided(i) =>
              (snapshot[i].id \in firedInScan
                  <=> /\ ~snapshot[i].completed
                      /\ snapshot[i].time - scanNow >= -60
                      /\ snapshot[i].time - scanNow <= 10)

\* one scan skipped a completed reminder inside the window and fired another
\* exactly 10 s ahead of its time
C4_Witness ==
    \E i, j \in 1..Len(snapshot) :
        /\ Passed(i) /\ Passed(j)
        /\ snapshot[i].completed
        /\ snapshot[i].time - scanNow >= -60
        /\ snapshot[i].id \notin firedInScan
        /\ snapshot[j].time - scanNow = 10
        /\ snapshot[j].id \in firedInScan

\* C8: when the delivery callback fails for a due reminder, the scan still
\* marks it completed, and no later scan calls the callback for it again.
C8_FailureStillMarks ==
    \A id \in failed :
        /\ delivered[id] = 1
        /\ id \in IdsOf(store) =>
              \/ RecordOf(store, id).completed
              \/ schedPc = "mark" /\ snapshot[scanIdx].id = id

\* a later scan has passed, inside the window, a reminder whose callback failed
C8_Witness ==
    \E i \in 1..Len(snapshot) :
        /\ Passed(i)
        /\ snapshot[i].id \in failed
        /\ snapshot[i].id \notin firedInScan
        /\ snapshot[i].completed
        /\ snapshot[i].time - scanNow >= -WindowPast

\* C9: an uncompleted reminder more than 60 s past its time at a scan is not
\* delivered by that scan (no callback is called for a reminder that late), and
\* not by any later scan (a reminder once passed over as late is never
\* delivered).
C9_MissedNeverDelivered ==
    /\ [][\A id \in Ids :
             delivered'[id] # delivered[id] =>
                 /\ schedPc = "check"
                 /\ snapshot[scanIdx].id = id
                 /\ snapshot[scanIdx].time - scanNow >= -60]_vars
    /\ [](\A id \in missed : delivered[id] = 0)

\* a reminder was passed over as late by one scan and again by a later one
C9_Witness ==
    \E i \in 1..Len(snapshot) :
        /\ Passed(i)
        /\ snapshot[i].id \in missed
        /\ ~snapshot[i].completed
        /\ snapshot[i].time - scanNow < -70
        /\ delivered[snapshot[i].id] = 0

\* a step of the scheduler thread
SchedulerStep == schedPc' # schedPc \/ scanIdx' # scanIdx

\* C10: a scan removes no record and changes no id, text or time; all it
\* changes in the store is completed, to TRUE, on reminders it fired.
C10_ScanFrame ==
    [][SchedulerStep =>
          /\ Len(store') = Len(store)
          /\ \A i \in 1..Len(store) :
                /\ store'[i].id = store[i].id
                /\ store'[i].text = store[i].text
                /\ store'[i].time = store[i].time
                /\ store'[i].completed # store[i].completed =>
                      /\ store'[i].completed
                      /\ store[i].id \in firedInScan]_vars

\* a scan has marked one of two stored reminders and left the other as it was
C10_Witness ==
    /\ schedPc = "check"
    /\ Len(store) = 2
    /\ \E i, j \in 1..2 :
          /\ store[i].completed /\ store[i].id \in firedInScan
          /\ ~store[j].completed /\ store[j].id \notin firedInScan
          /\ store[i].text # store[j].text

\* C5: with a scan every 10 seconds and no stall, every reminder that was
\* saved at least one scan period before its time and is still in the store
\* has been fired by some scan once its window is over: none is missed.
C5_NoneMissed ==
    \A i \in 1..Len(store) :
        /\ store[i].id \notin addedLate
        /\ now > store[i].time + WindowPast
        => /\ delivered[store[i].id] = 1
           /\ store[i].id \notin missed

\* a reminder saved in time sits fired and completed in the store after its
\* window, beside one saved too late that the scans missed
C5_Witness ==
    \E i, j \in 1..Len(store) :
        /\ store[i].id \notin addedLate
        /\ now > store[i].time + WindowPast
        /\ store[i].completed
        /\ delivered[store[i].id] = 1
        /\ store[j].id \in addedLate
        /\ store[j].id \in missed

\* position of id in the log of pushes (0: never pushed)
PushPos(id) ==
    IF \E k \in 1..Len(pushLog) : pushLog[k] = id
    THEN CHOOSE k \in 1..Len(pushLog) : pushLog[k] = id
    ELSE 0

\* the notification of id is on its way: queued, or in a poll's answer
InFlight(id) == id \in IdsOf(pending) \/ id \in IdsOf(pollResult)

\* C3 as stated: every reminder the scheduler fires ends as exactly one
\* notification received by the client; once the notification pushed for it is
\* no longer on its way, it was received once.
C3_ExactlyOnce ==
    \A id \in Ids :
        PushPos(id) > 0 /\ ~InFlight(id) => received[id] = 1

\* C3, amended: a fired reminder is received by the polling client at most
\* once (and only a fired reminder is received); it may be received never.
C3_AtMostOnce ==
    \A id \in Ids :
        /\ received[id] <= 1
        /\ received[id] = 1 => delivered[id] = 1 /\ id \notin failed

\* one fired reminder was received once, another was fired and pushed and is
\* gone without having been received
C3_Witness ==
    \E a, b \in Ids :
        /\ received[a] = 1
        /\ PushPos(b) > 0 /\ ~InFlight(b) /\ received[b] = 0
        /\ pollPc = "idle"

\* C6: drain returns all that is in the queue, in the order of the pushes, and
\* leaves the queue empty; a second drain with no push in between returns the
\* empty sequence.
C6_DrainOneShot ==
    [][/\ pollPc = "idle" /\ pollPc' = "copied" =>
            /\ IdsOf(pollResult') = IdsOf(pending)
            /\ Len(pollResult') = Len(pending)
            /\ \A i, j \in 1..Len(pollResult') :
                  i < j => PushPos(pollResult'[i].id) < PushPos(pollResult'[j].id)
            /\ fresh => pollResult' = <<>>
       /\ pollPc = "copied" /\ pollPc' = "sent" =>
            /\ pending' = <<>>
            /\ pollResult' = pollResult]_vars

\* a drain has returned two notifications and emptied the queue
C6_Witness ==
    /\ pollPc = "sent"
    /\ Len(pollResult) = 2
    /\ pollResult[1].id # pollResult[2].id
    /\ pending = <<>>

\* C7: whatever way a push of the scheduler falls into a drain, the clear
\* drops nothing: what was queued is in the drain's result or still queued.
C7_PushNeverLost ==
    [][pollPc = "copied" /\ pollPc' = "sent" =>
          \A id \in IdsOf(pending) :
              id \in IdsOf(pollResult') \/ id \in IdsOf(pending')]_vars

\* C11: for each due reminder the scan calls the delivery callback with the
\* reminder's text and id before it marks the record completed: the step that
\* turns a record completed is the marking step of a scan whose callback was
\* already called for that record, and what a callback appends to the queue
\* carries the text and id of the record under the scan.
C11_CallbackBeforeMark ==
    [][/\ \A i \in 1..Len(store') :
             /\ store'[i].completed
             /\ store'[i].id \in IdsOf(store)
             /\ ~RecordOf(store, store'[i].id).completed
             => /\ schedPc = "mark"
                /\ snapshot[scanIdx].id = store'[i].id
                /\ store'[i].id \in firedInScan
                /\ delivered[store'[i].id] = 1
       /\ pending' # pending =>
             /\ delivered' # delivered
             /\ pending' = Append(pending,
                                  [id |-> snapshot[scanIdx].id,
                                   text |-> snapshot[scanIdx].text,
                                   message |-> <<"Reminder: ",
                                                 snapshot[scanIdx].text>>])
             /\ ~snapshot[scanIdx].completed
             /\ \A k \in 1..Len(store) :
                   store[k].id = snapshot[scanIdx].id
                       => store'[k].completed = store[k].completed]_vars

\* a scan has called the callback for a reminder, queued its notification and
\* then marked it completed
C11_Witness ==
    /\ schedPc = "check"
    /\ \E i \in 1..Len(store), k \in 1..Len(pending) :
          /\ store[i].completed
          /\ store[i].id \in firedInScan
          /\ pending[k].id = store[i].id
          /\ pending[k].text = store[i].text

\* C12: dismiss(id) removes every queued notification whose id is the given id
\* and leaves all other queued notifications present, unchanged and in their
\* order; dismissing an id that is not queued leaves the queue unchanged.
C12_DismissFrame ==
    [][pushLog' = pushLog =>
          LET id == dismissed' IN
          /\ \A i \in 1..Len(pending') : pending'[i].id # id
          /\ Len(pending')
                 = Cardinality({a \in 1..Len(pending) : pending[a].id # id})
          /\ \A a \in 1..Len(pending) :
                pending[a].id # id
                    => \E i \in 1..Len(pending') : pending'[i] = pending[a]
          /\ \A i, j \in 1..Len(pending') :
                i < j => \E a, b \in 1..Len(pending) :
                             /\ a < b
                             /\ pending[a] = pending'[i]
                             /\ pending[b] = pending'[j]
          /\ (\A a \in 1..Len(pending) : pending[a].id # id)
                => pending' = pending]_vars

\* the second of three queued notifications was dismissed: the first and the
\* third are queued, in that order
C12_Witness ==
    /\ Len(pushLog) = 3
    /\ dismissed = pushLog[2]
    /\ Len(pending) = 2
    /\ pending[1].id = pushLog[1]
    /\ pending[2].id = pushLog[3]

\* p.match(command) for the commands sent
Matched ==
    [c \in Commands |->
        [p \in {Processors[i] : i \in 1..Len(Processors)} |-> match(p, c)]]

\* the reminders as "list reminders" shows them: the regular ones, then the
\* scheduled ones
Display(reg, s) ==
    [i \in 1..(Len(reg) + Len(s)) |->
        IF i <= Len(reg) THEN [regular |-> reg[i]] ELSE s[i - Len(reg)]]

\* C13: route(command) invokes the first handler, in the order Info, Reminder,
\* Emergency, Health, Entertainment, whose matches(command) is true, and only
\* that one: no later handler is asked or invoked, whether or not its keywords
\* match too.
C13_FirstMatchHandles ==
    [][LET order == <<"Info", "Reminder", "Emergency", "Health", "Entertainment">>
           m == Matched[lastCommand']
       IN  \A i \in 1..Len(order) :
               /\ m[order[i]]
               /\ \A j \in 1..(i - 1) : ~m[order[j]]
               => /\ handler' = order[i]
                  /\ consulted' = SubSeq(order, 1, i)
                  /\ response' = "emergency" <=> order[i] = "Emergency"
                  /\ emergencySent' <=> order[i] = "Emergency"
                  /\ order[i] # "Reminder" =>
                        /\ store' = store
                        /\ regular' = regular
                        /\ nextId' = nextId
                        /\ response' = handle_other(order[i])]_vars

\* a command with a reminder and an emergency keyword was handled by the
\* reminder handler, which saved the reminder; no emergency SMS was sent
C13_Witness ==
    /\ lastCommand = "set reminder to call for help at 9 pm"
    /\ Matched[lastCommand]["Reminder"]
    /\ Matched[lastCommand]["Emergency"]
    /\ handler = "Reminder"
    /\ response = "confirmation"
    /\ ~emergencySent
    /\ store # <<>>

\* C14: a command no handler matches gets the unhandled result; every handler
\* was asked and none invoked, the reminders and the notification queue are as
\* they were.
C14_NoMatchUnhandled ==
    [][(\A p \in DOMAIN Matched[lastCommand'] : ~Matched[lastCommand'][p]) =>
          /\ handler' = "none"
          /\ response' = "unhandled"
          /\ Len(consulted') = Cardinality(DOMAIN Matched[lastCommand'])
          /\ ~emergencySent'
          /\ store' = store
          /\ regular' = regular
          /\ nextId' = nextId
          /\ pending' = pending]_vars

\* "hello there" was left to the LLM, two reminders are in the store
C14_Witness ==
    /\ lastCommand = "hello there"
    /\ handler = "none"
    /\ response = "unhandled"
    /\ Len(store) = 2

\* every emergency keyword in c lies inside a request of the kind
\* "help me find ..."
OnlyInsidePhrase(c) ==
    /\ \E k \in {"emergency", "sos", "help"} : Contains(c, k)
    /\ \A k \in {"emergency", "sos", "help"} :
          \A i \in 1..Len(c) :
              Sub(c, i, i + Len(k) - 1) = k
                  => \E j \in 1..i : /\ Sub(c, j, j + 11) = "help me find"
                                     /\ i + Len(k) - 1 <= j + 11

HarmlessHelp == {c \in Commands : OnlyInsidePhrase(lower(c))}

\* C15: a command with an emergency keyword only inside a non-emergency
\* phrase, such as "help me find a store", is not matched by the emergency
\* handler (so in no handler order handled by it) and sets off no emergency
\* send.
C15_NoFalseEmergency ==
    [][lastCommand' \in HarmlessHelp =>
          /\ ~Matched[lastCommand']["Emergency"]
          /\ handler' # "Emergency"
          /\ response' # "emergency"
          /\ ~emergencySent']_vars

\* "help me find a store" was processed: no handler took it, nothing was sent
C15_Witness ==
    /\ lastCommand = "help me find a store"
    /\ lastCommand \in HarmlessHelp
    /\ handler = "none"
    /\ ~emergencySent

\* the command is for the reminder handler and of the given kind
ReminderCommand(c, intent) ==
    /\ Read[c].route > 0
    /\ Processors[Read[c].route] = "Reminder"
    /\ Read[c].intent = intent

\* C16: a set command whose time parses adds one scheduled reminder, not
\* completed and due at the parsed time, and changes no other record; one whose
\* time does not parse adds nothing and is answered with a request to clarify.
C16_SetAddsOne ==
    [][LET c == lastCommand'
           t == Read[c].time
       IN  ReminderCommand(c, "set") =>
             /\ regular' = regular
             /\ IF t.found
                THEN /\ Len(store') = Len(store) + 1
                     /\ SubSeq(store', 1, Len(store)) = store
                     /\ store'[Len(store')].id \notin IdsOf(store)
                     /\ ~store'[Len(store')].completed
                     /\ parsed' = <<[found |-> TRUE,
                                     date |-> IF Read[c].tomorrow
                                              THEN next_day(today) ELSE today,
                                     hour |-> t.hour, minute |-> t.minute]>>
                     /\ store'[Len(store')].time
                            = (((IF Read[c].tomorrow THEN 24 ELSE 0) + t.hour) * 60
                                   + t.minute) * 60
                     /\ response' = "confirmation"
                ELSE /\ store' = store
                     /\ nextId' = nextId
                     /\ response' = "clarification"]_vars

\* after "medicine at 3pm" and "water tomorrow at 10am" were saved, a set
\* command without a time was answered with a request to clarify
C16_Witness ==
    /\ lastCommand = "set reminder for pills"
    /\ response = "clarification"
    /\ Len(store) = 2
    /\ store[1] = [id |-> 1, text |-> "medicine", time |-> 54000,
                   completed |-> FALSE]
    /\ store[2] = [id |-> 2, text |-> "water", time |-> 122400,
                   completed |-> FALSE]

\* C17: "delete reminder N" with N below 1 or above the number of reminders
\* leaves the reminders as they were and is answered with an error message.
C17_DeleteOutOfRange ==
    [][LET c == lastCommand'
           n == Read[c].number
       IN  /\ ReminderCommand(c, "delete")
           /\ ~Read[c].all
           /\ n >= 0
           /\ n < 1 \/ n > Len(regular) + Len(store)
           => /\ store' = store
              /\ regular' = regular
              /\ nextId' = nextId
              /\ response' = "error"]_vars

\* "delete reminder 0" was answered with an error, the three reminders are
\* there
C17_Witness ==
    /\ lastCommand = "delete reminder 0"
    /\ response = "error"
    /\ Len(regular) = 1
    /\ Len(store) = 2

\* C18: with k reminders in display order, "delete reminder N" for 1 <= N <= k
\* removes the N-th and leaves the other k - 1 present, unchanged and in their
\* order.
C18_DeleteNth ==
    [][LET c == lastCommand'
           n == Read[c].number
           d == Display(regular, store)
       IN  /\ ReminderCommand(c, "delete")
           /\ ~Read[c].all
           /\ n >= 1 /\ n <= Len(d)
           => /\ Display(regular', store')
                    = [i \in 1..(Len(d) - 1) |-> IF i < n THEN d[i] ELSE d[i + 1]]
              /\ Len(regular') + Len(store') = Len(d) - 1
              /\ nextId' = nextId
              /\ response' = "deleted"]_vars

\* of a regular and two scheduled reminders the second was deleted: the
\* regular one and the last one are left
C18_Witness ==
    /\ lastCommand = "delete reminder 2"
    /\ response = "deleted"
    /\ Len(regular) = 1
    /\ Len(store) = 1
    /\ store[1].id = 2

IsDayAfter(d2, d1) ==
    /\ d2.m \in 1..12
    /\ d2.d \in 1..DaysInMonth(d2.y, d2.m)
    /\ \/ d2.y = d1.y /\ DayOfYear(d2) = DayOfYear(d1) + 1
       \/ d2.y = d1.y + 1 /\ DayOfYear(d2) = 1 /\ DayOfYear(d1) = DaysInYear(d1.y)

\* C20: for a command with "tomorrow" and a recognized time the date is the
\* current date plus one day, across the ends of months and years too, and the
\* time of day is that of the same command without the word.
C20_TomorrowNextDay ==
    parsed # <<>> /\ input.kind \in {"12h", "24h"} /\ input.tomorrow # "" =>
        LET plain == parse_time(TextOf([input EXCEPT !.tomorrow = ""]), today)
        IN  /\ Contains(lastCommand, "tomorrow")
            /\ parsed[1].found
            /\ IsDayAfter(parsed[1].date, today)
            /\ plain.found
            /\ plain.date = today
            /\ parsed[1].hour = plain.hour
            /\ parsed[1].minute = plain.minute

\* "tomorrow at 10am" on December 31 is January 1 of the next year, 10:00
C20_Witness ==
    /\ today = Date(2024, 12, 31)
    /\ lastCommand = "remind me tomorrow at 10am"
    /\ parsed = <<[found |-> TRUE, date |-> Date(2025, 1, 1), hour |-> 10,
                   minute |-> 0]>>

\* C21: for every text the parser returns "not found" or a time with an hour
\* in 0..23 and a minute in 0..59 on a date of the calendar, and a text whose
\* digits are out of range ("25:00", "10:75", "13pm") is "not found".
C21_ParserTotal ==
    parsed # <<>> =>
        /\ \/ parsed[1] = NotFound
           \/ /\ parsed[1].found
              /\ parsed[1].hour \in 0..(HoursPerDay - 1)
              /\ parsed[1].minute \in 0..(MinutesPerHour - 1)
              /\ parsed[1].date \in {today, next_day(today)}
        /\ input.kind = "malformed" => parsed[1] = NotFound

\* "13pm" was parsed: not found
C21_Witness ==
    /\ lastCommand = "remind me at 13pm"
    /\ parsed = <<NotFound>>

\* C22: without the word "tomorrow" the date of a recognized time is the
\* current date, also when the time of day has passed: the reminder is then
\* due in the past, the date is not moved to the next day.
C22_NoRollover ==
    parsed # <<>> /\ parsed[1].found /\ ~Contains(lower(lastCommand), "tomorrow") =>
        /\ parsed[1].date = today
        /\ DueSeconds(parsed[1], today) =
               (parsed[1].hour * MinutesPerHour + parsed[1].minute) * SecondsPerMinute
        /\ DueSeconds(parsed[1], today) < HoursPerDay * MinutesPerHour * SecondsPerMinute

\* "at 9:00" said at noon on December 31 is 9:00 of December 31, three hours
\* in the past
C22_Witness ==
    /\ today = Date(2024, 12, 31)
    /\ now = 12 * 3600
    /\ lastCommand = "remind me at 9:00"
    /\ parsed = <<[found |-> TRUE, date |-> today, hour |-> 9, minute |-> 0]>>
    /\ DueSeconds(parsed[1], today) = now - 3 * 3600

\* the words of the command c that are neither command words nor words of
\* its time phrase
SubjectWords(c) ==
    LET t == Read[c].time
        phrase == {w \in {Words(Sub(lower(c), t.from, t.to))[k] :
                             k \in 1..Len(Words(Sub(lower(c), t.from, t.to)))} : TRUE}
    IN  SelectSeq(Words(lower(c)), LAMBDA w : w \notin StopWords \cup phrase)

\* C23: the text stored by a set command is the command without its time
\* phrase and without the command words, "this" when nothing is left, so never
\* empty, and the response names the time and the text; "set reminder for
\* medicine at 3pm" stores "medicine" and answers with "3:00 PM" and
\* "medicine".
C23_SubjectExtraction ==
    [][\A c \in Commands :
        /\ lastCommand' = c
        /\ ReminderCommand(c, "set")
        /\ Read[c].time.found
        => LET text == store'[Len(store')].text IN
           /\ Len(store') = Len(store) + 1
           /\ text # ""
           /\ text = IF SubjectWords(c) = <<>> THEN "this" ELSE Join(SubjectWords(c))
           /\ Len(message') = 1
           /\ Contains(message'[1], text)
           /\ c = "set reminder for medicine at 3pm" =>
                 /\ text = "medicine"
                 /\ Contains(message'[1], "3:00 PM")
                 /\ Contains(message'[1], "medicine")]_vars

\* "set reminder for medicine at 3pm" stored "medicine", then "set reminder
\* at 3pm" stored "this"
C23_Witness ==
    /\ Len(store) = 2
    /\ store[1].text = "medicine"
    /\ store[2].text = "this"
    /\ lastCommand = "set reminder at 3pm"
    /\ message = <<"Reminder set for 3:00 PM: this">>

\* the handler of each command text, read off the keyword lists by hand
HandlerOf ==
    [c \in Commands |->
        CASE c \in {"what time is it", "what is the weather",
                    "reminder about the news"} -> "Info"
          [] c \in {"emergency help", "help",
                    "please help me find my sos button"} -> "Emergency"
          [] c \in {"i need motivation", "play music for my exercise"} -> "Health"
          [] c = "tell me a joke" -> "Entertainment"
          [] c \in {"help me find a store", "hello there"} -> "none"
          [] OTHER -> "Reminder"]

\* C24: the handler selected for a command text is one fixed handler (or none)
\* for that text with the given handler order, whatever the store holds and
\* whatever commands came before.
C24_RouteDeterministic ==
    [][\A c \in Commands : lastCommand' = c => handler' = HandlerOf[c]]_vars

\* "hello there" has no handler after two reminders were set, as it has
\* none at the start
C24_Witness ==
    /\ lastCommand = "hello there"
    /\ handler = "none"
    /\ Len(store) = 2
    /\ HandlerOf["hello there"] = "none"

\* C25: a set command whose time is not recognized and a delete command
\* whose index is out of range are answered through the normal path: success
\* is true, the response is a message that explains, nothing is stored or
\* deleted.
C25_RecoverableSucceeds ==
    [][\A c \in Commands :
        /\ lastCommand' = c
        /\ \/ ReminderCommand(c, "set") /\ ~Read[c].time.found
           \/ /\ ReminderCommand(c, "delete") /\ ~Read[c].all
              /\ Read[c].number \notin 1..Len(Display(regular, store))
        => /\ success' = TRUE
           /\ Len(message') = 1
           /\ message'[1] # ""
           /\ response' \in {"clarification", "error"}
           /\ message'[1] = answer(response')
           /\ store' = store /\ regular' = regular]_vars

\* "delete reminder 3" with two reminders stored was answered with success
\* true and the message of an invalid number
C25_Witness ==
    /\ lastCommand = "delete reminder 3"
    /\ Len(store) + Len(regular) = 2
    /\ response = "error"
    /\ success = TRUE
    /\ message = <<"Invalid reminder number">>

\* s starts with p
StartsWith(s, p) == Sub(s, 1, Len(p)) = p

\* the date k days from `date`, found by counting days of the year
DateAt(date, k) ==
    CHOOSE d \in [y : {date.y - 1, date.y, date.y + 1}, m : 1..12, d : 1..31] :
        /\ d.d <= DaysInMonth(d.y, d.m)
        /\ IF k >= 0 THEN DaysFrom(date, d) = k ELSE DaysFrom(d, date) = -k
        /\ IF k >= 0 THEN d.y >= date.y ELSE d.y <= date.y

\* C26: in the list each scheduled reminder carries one of three labels,
\* chosen by its due date: due today "H:MM AM/PM", due on the next day of the
\* calendar "Tomorrow at H:MM AM/PM", due on any other day "Month D at H:MM
\* AM/PM" with the month and day of that date, across the ends of months
\* and years too.
C26_ListLabels ==
    response = "list" =>
        /\ Len(message) = Len(regular) + Len(store)
        /\ \A i \in 1..Len(store) :
            LET line == message[Len(regular) + i]
                k == store[i].time \div SecondsPerDay
                mins == (store[i].time % SecondsPerDay) \div SecondsPerMinute
                clock == format_12_hour(mins \div 60, mins % 60)
                d == DateAt(today, k)
                tail == ": " \o store[i].text
            IN  /\ k = 0 => line = clock \o tail
                /\ k = 1 => line = "Tomorrow at " \o clock \o tail
                /\ k \notin {0, 1} =>
                      line = MonthNames[d.m] \o " " \o NumStr(d.d) \o " at "
                                \o clock \o tail
                /\ IsDigit(CharAt(line, 1)) <=> k = 0
                /\ StartsWith(line, "Tomorrow at ") <=> k = 1
                /\ (\E n \in 1..12 : StartsWith(line, MonthNames[n] \o " "))
                      <=> k \notin {0, 1}

\* listed on December 31, 2024: a reminder of 10 a.m. of the next day and one
\* of 3:30 p.m. of the day after that
C26_Witness ==
    /\ today = Date(2024, 12, 31)
    /\ regular = <<>>
    /\ response = "list"
    /\ message = << "Tomorrow at 9:00 AM: medicine", "January 2 at 3:30 PM: water" >>

\* the texts in the speech queue: in progress or about to be spoken
Queued == {utterances[k] : k \in 1..Len(utterances)}

\* C27: after the client handled a poll response, every notification of the
\* response is in the chat and is being spoken or about to be, also when the
\* response holds several notifications.
C27_AllShownAndSpoken ==
    [][pollPc = "sent" /\ pollPc' = "idle" /\ messages' # messages =>
        /\ Len(messages') = Len(messages) + Len(pollResult)
        /\ \A i \in 1..Len(pollResult) :
              /\ messages'[Len(messages) + i] =
                     [type |-> "assistant", content |-> message_text(pollResult[i])]
              /\ message_text(pollResult[i]) \in Queued']_vars

\* the refreshes a check asks for when its response held notifications
AfterNotifications == IF pollResult # <<>> THEN 1 ELSE 0

\* C28: a notification check whose response arrived counts itself; the 6th
\* one refreshes the reminders list and resets the counter to 0, and a check
\* whose response held at least one notification refreshes the list as well
\* (twice when it is also the 6th). A check whose request failed counts
\* nothing and refreshes nothing.
C28_RefreshEverySixth ==
    [][pollPc = "sent" /\ pollPc' = "idle" =>
        \/ /\ reminderRefreshCounter + 1 < RefreshEvery
           /\ reminderRefreshCounter' = reminderRefreshCounter + 1
           /\ fetched' = AfterNotifications
        \/ /\ reminderRefreshCounter + 1 = RefreshEvery
           /\ reminderRefreshCounter' = 0
           /\ fetched' = 1 + AfterNotifications
        \/ /\ UNCHANGED <<reminderRefreshCounter, messages, utterances, received>>
           /\ fetched' = 0]_vars

\* the 6th check since the last reset returned a notification: the list was
\* refreshed twice and the counter is back at 0
C28_Witness ==
    /\ pollPc = "idle"
    /\ fetched = 2
    /\ reminderRefreshCounter = 0
    /\ messages # <<>>

\* the texts the chat shows as the assistant's
Shown == {messages[k].content : k \in {j \in 1..Len(messages) : messages[j].type = "assistant"}}

\* C29: the speech queue of the client never holds more than one utterance:
\* the one in progress, with none behind it, since speak cancels whatever is
\* there before it adds the new utterance.
C29_OneUtterance == Len(utterances) <= 1

\* a text was shown and never heard to its end, and another one is being
\* spoken: speak was called on top of an utterance
C29_Witness ==
    /\ Len(utterances) = 1
    /\ Cardinality(Shown) = 2
    /\ heard = {}
    /\ pollPc = "idle"
    /\ awaiting = <<>>

\* the stored reminders saved within their own minute in one of the ways
SavedForNow(ways) == {i \in 1..Len(store) : setForNow[store[i].id] \in ways}

\* the callback was called for stored reminder i once its window was over
FiredInWindow(i) ==
    now > store[i].time + WindowPast
        => delivered[store[i].id] = 1 /\ store[i].id \notin missed

SavedPast == {id \in Ids : setForNow[id] = "past"}

\* C31: a set command without "tomorrow" that arrives more than 60 s after
\* its time of day appends a record for that time of the current day, not
\* completed, and answers with the usual confirmation; no scan ever calls the
\* callback for such a reminder or marks it completed, and it leaves the
\* store only by a delete command.
C31_PastNeverFires ==
    [][/\ nextId' # nextId /\ nextId \in SavedPast' =>
            /\ store' = Append(store, ScheduledReminder(nextId, "medicine", 0))
            /\ store'[Len(store')].time < now - WindowPast
            /\ ~store'[Len(store')].completed
            /\ response' = "confirmation"
            /\ message' = <<"Reminder set for 12:00 AM: medicine">>
            /\ success'
       /\ \A id \in SavedPast' : delivered'[id] = 0 /\ id \notin failed'
       /\ \A i \in 1..Len(store') :
              store'[i].id \in SavedPast' => ~store'[i].completed
       /\ \A id \in SavedPast \cap IdsOf(store) :
              id \notin IdsOf(store') =>
                  /\ handler' = "Reminder"
                  /\ response' \in {"deleted", "deleted-all"}]_vars

\* a reminder saved after its minute sits in the store, not completed and
\* never delivered, after a scan has passed over it
C31_Witness ==
    \E i \in 1..Len(store) :
        /\ store[i].id \in SavedPast
        /\ store[i].id \in missed
        /\ ~store[i].completed
        /\ delivered[store[i].id] = 0
        /\ schedPc = "sleep"

\* the ids given out whose record is no longer stored (an id is never given
\* out twice)
Deleted == {id \in Ids : id < nextId /\ id \notin IdsOf(store)}

\* C32: a scan loads no reminder that was deleted before it started and
\* calls the callback only for reminders of the list it loaded, so a scan
\* that starts after a delete never fires the deleted reminder; and no step
\* of a scan, the marking included, brings a deleted record back or changes
\* the number of stored records.
C32_DeleteWins ==
    [][/\ schedPc = "sleep" /\ schedPc' = "check" =>
            IdsOf(snapshot') \cap Deleted = {}
       /\ \A id \in Ids :
              delivered'[id] # delivered[id] => id \in IdsOf(snapshot)
       /\ SchedulerStep => Deleted' = Deleted /\ Len(store') = Len(store)]_vars

\* a reminder was deleted while the scan that had loaded it was running: the
\* scan fired it and went through its marking, and the record is still gone
C32_Witness ==
    \E id \in firedInScan \cap Deleted :
        /\ schedPc = "check"
        /\ id \in IdsOf(snapshot)
        /\ \E i \in 1..Len(snapshot) : snapshot[i].id = id /\ Passed(i)
        /\ store # <<>>

\* s without its n-th entry
Without(s, n) == [i \in 1..(Len(s) - 1) |-> IF i < n THEN s[i] ELSE s[i + 1]]

\* C33: List shows one line per regular and per scheduled reminder, the
\* notified ones included, in the display order; Count tells the number of
\* those lines; "delete reminder N" with N on the list removes the reminder
\* of line N and no other, so that the list afterwards is the list before
\* without line N.
C33_IndexAgreement ==
    [][LET c == lastCommand'
           n == Read[c].number
           lines == list_reminders(regular, store, today)
           d == Display(regular, store)
       IN  /\ Len(lines) = Len(d)
           /\ ReminderCommand(c, "list") =>
                 /\ message' = lines
                 /\ Display(regular', store') = d
           /\ ReminderCommand(c, "count") =>
                 /\ message' = <<"You have " \o NumStr(Len(lines)) \o " reminders">>
                 /\ Display(regular', store') = d
           /\ ReminderCommand(c, "delete") /\ n >= 1 /\ n <= Len(lines) =>
                 /\ list_reminders(regular', store', today) = Without(lines, n)
                 /\ Display(regular', store') = Without(d, n)]_vars

\* "delete reminder 2" took the first scheduled reminder, which was not yet
\* notified, from behind a legacy reminder; the notified one is left
C33_Witness ==
    /\ lastCommand = "delete reminder 2"
    /\ response = "deleted"
    /\ regular = <<"take medicine">>
    /\ Len(store) = 1
    /\ store[1].id = 2
    /\ store[1].completed

\* the response whose callback ran in the step: of the running poll, or of
\* the overtaken one
Handled == IF overtaken' = overtaken THEN pollResult ELSE Head(overtaken)

\* a callback ran to its end in the step (it counted its check)
CallbackRan == reminderRefreshCounter' # reminderRefreshCounter

\* the chat lines of a response
ChatLines(notifs) ==
    [i \in 1..Len(notifs) |->
        [type |-> "assistant",
         content |-> IF "message" \in DOMAIN notifs[i] /\ notifs[i].message # <<>>
                     THEN notifs[i].message[1] \o notifs[i].message[2]
                     ELSE "Reminder: " \o notifs[i].text]]

\* C34: the callback of a poll whose response arrived appends to the chat one
\* assistant message per notification of the response, in the order of the
\* response, with the notification's message as content, or "Reminder: " and
\* its text when it has none; and whatever the order in which overlapping
\* polls are answered, no reminder gets a second chat message.
C34_OneMessageEach ==
    [][CallbackRan =>
          /\ messages' = messages \o ChatLines(Handled)
          /\ \A i \in 1..Len(Handled) :
                /\ messages'[Len(messages) + i].content
                      = "Reminder: " \o ReminderText(Handled[i].id)
                /\ message_text([text |-> Handled[i].text, id |-> Handled[i].id])
                      = "Reminder: " \o Handled[i].text
          /\ \A id \in Ids :
                /\ received'[id] = received[id] + CountOf(Handled, id)
                /\ received'[id] <= 1]_vars

\* two polls overlapped and the response of the later one was handled first:
\* the chat shows the later notification above the earlier one, each once
C34_Witness ==
    /\ Len(messages) = 2
    /\ messages[1].content = "Reminder: water"
    /\ messages[2].content = "Reminder: medicine"
    /\ pushLog = <<1, 2>>
    /\ received[1] = 1 /\ received[2] = 1
    /\ overtaken = <<>>
    /\ pollPc = "idle"

\* the ids in the responses still on their way behind a newer poll
OvertakenIds == UNION {IdsOf(overtaken[k]) : k \in 1..Len(overtaken)}

\* the notifications that are nowhere any more, without having reached a
\* callback
Lost ==
    {id \in Ids :
        /\ id \notin IdsOf(pending) \cup IdsOf(pollResult) \cup OvertakenIds
        /\ received[id] = 0}

\* the request of the running poll failed in the step
RunningFailed ==
    pollPc = "sent" /\ pollPc' = "idle" /\ overtaken' = overtaken /\ ~CallbackRan

\* the request of an overtaken poll failed in the step
OvertakenFailed == Len(overtaken') < Len(overtaken) /\ ~CallbackRan

\* C35: when the request of a poll fails after the server has drained the
\* queue for it, the client adds nothing to the chat and speaks nothing, the
\* request is not sent again, and the notifications of its response are lost:
\* no later poll returns them and no callback ever handles them.
C35_FailedPollLoses ==
    [][/\ RunningFailed \/ OvertakenFailed =>
            /\ UNCHANGED <<messages, utterances, isSpeaking, received>>
            /\ IdsOf(Handled) \subseteq dropped'
            /\ pollPc' \in {"idle", pollPc}
       /\ dropped' \subseteq Lost']_vars

\* the only notification ever queued was drained for a poll that failed: a
\* later poll was answered with nothing and the chat is empty
C35_Witness ==
    /\ pushLog = <<1>>
    /\ dropped = {1}
    /\ pollPc = "sent"
    /\ pollResult = <<>>
    /\ messages = <<>>
    /\ reminderRefreshCounter = 0

\* C36: isSpeaking is true and voiceStatus is "speaking" exactly while an
\* utterance is in progress.
C36_SpeakingWhileUtterance ==
    /\ isSpeaking <=> utterances # <<>>
    /\ voiceStatus = "speaking" <=> utterances # <<>>

\* a command recognized by voice is waiting for the answer of the backend
VoiceCommandAwaits == \E k \in 1..Len(awaiting) : awaiting[k].voice

\* C37: voiceStatus is "listening" only while isListening is true, and it is
\* "processing" while a command recognized by voice awaits its answer.
C37_ListeningStatus ==
    /\ voiceStatus = "listening" => isListening
    /\ VoiceCommandAwaits => voiceStatus = "processing"

\* C38: the poll does not look at assistantStarted: a response that arrives
\* while the assistant has not been started is handled like any other, its
\* notifications are off the backend's queue, added to messages and passed to
\* speak, and assistantStarted stays false.
C38_PollBeforeStart ==
    [][pollPc = "sent" /\ pollPc' = "idle" /\ CallbackRan /\ ~assistantStarted =>
          /\ ~assistantStarted'
          /\ messages' = messages \o ChatLines(pollResult)
          /\ IdsOf(pollResult) \cap IdsOf(pending') = {}
          /\ pollResult # <<>> =>
                /\ utterances' = <<message_text(pollResult[Len(pollResult)])>>
                /\ isSpeaking'
                /\ voiceStatus' = "speaking"]_vars

\* the assistant was never started, and the notification of reminder 1 has
\* left the queue, is in messages and is being spoken
C38_Witness ==
    /\ ~assistantStarted
    /\ received[1] = 1
    /\ pending = <<>>
    /\ messages = <<[type |-> "assistant", content |-> "Reminder: medicine"]>>
    /\ utterances = <<"Reminder: medicine">>
    /\ isSpeaking

AnswerShown ==
    /\ awaiting # <<>>
    /\ awaiting' = Tail(awaiting)
    /\ messages' # messages
    /\ messages'[Len(messages')].content # "Sorry, I had trouble processing that."

====
